---- MODULE Spec2Model ----
(***************************************************************************)
(* z80pack: the CPU/bus handling of the simulator core (simcore.c), the    *)
(* ICE user interface (ice.c, appended to simglb.c) and the front panel    *)
(* control module of altairsim (simctl.c).                                 *)
(*                                                                         *)
(* Three specifications share the variables:                               *)
(*   SpecRegs  the register-file operations init_cpu, reset_cpu,           *)
(*             switch_cpu and the ICE register-modify command, applied in  *)
(*             any order to inputs drawn from bounded sets;                *)
(*   Spec      the scheduler run_cpu/step_cpu under its sequential         *)
(*             callers (ICE commands, the headless Altair machine);        *)
(*   SpecFP    the scheduler under the front panel machine loop, with the  *)
(*             switch callbacks running on the panel thread.               *)
(***************************************************************************)
EXTENDS Integers, Sequences, FiniteSets, TLC

(***************************************************************************)
(* Bounds of the model.                                                    *)
(***************************************************************************)
MaxTape == 2        \* random tapes 0..MaxTape besides the all-RAND_MAX tape
MaxRegCmds == 2     \* ICE register-modify commands per behaviour
MaxInstr == 2       \* instructions counted after a stop request

(***************************************************************************)
(* Program constants.  simdefs.h / simcore.h are not part of the sources   *)
(* at hand; the values are the ones the code relies on: cpu_state is a     *)
(* bit set (cpu_state |= RESET, LED_RUN bound to bit 1 of cpu_state).      *)
(***************************************************************************)
Z80 == 1
I8080 == 2

STOPPED == 0
CONTIN_RUN == 1
SINGLE_STEP == 2
RESET == 4
MODEL_SWITCH == 8

NONE == 0
OPHALT == 1
IOERROR == 5
USERINT == 9
POWEROFF == 255

S_FLAG == 128
Z_FLAG == 64
Y_FLAG == 32
H_FLAG == 16
X_FLAG == 8
P_FLAG == 4
N_FLAG == 2
C_FLAG == 1

RAND_MAX == 2147483647

SBSIZE == 4         \* number of software breakpoints (sim.h)
IFNEST == 20        \* max. IF.. nesting depth (z80a.h)
MemFill == 0        \* content of memory never written (option -m 00)

(***************************************************************************)
(* Bit operations on bytes (BYTE arithmetic of the C code).                *)
(***************************************************************************)
Bit(x, k) == (x \div (2 ^ k)) % 2

BitAnd(x, y) ==
    LET f[k \in 0 .. 16] ==
            IF k = 16 THEN 0 ELSE Bit(x, k) * Bit(y, k) * (2 ^ k) + f[k + 1]
    IN  f[0]

BitOr(x, y) == x + y - BitAnd(x, y)

\* x & ~m on a BYTE / the low byte of an int
BitClr(x, m) == x - BitAnd(x, m)

(***************************************************************************)
(* Partial updates: the assignments a piece of C code makes, as a function *)
(* from variable name to new value.  Then(u, v) is "u; v" for updates that *)
(* do not read each other's results.                                       *)
(***************************************************************************)
NoUpd == [n \in {} |-> 0]

Val(upd, n, old) == IF n \in DOMAIN upd THEN upd[n] ELSE old

Then(u, v) == v @@ u

(***************************************************************************)
(* State.                                                                  *)
(***************************************************************************)
VARIABLES
    build,              \* "BOTH", "EXCLUDE_I8080", "EXCLUDE_Z80"  (sim.h)
    machine,            \* which driver owns the CPU thread
    cpu,                \* simglb.c: int cpu = DEF_CPU
    A, B, C, D, E, H, L, F,
    IX, IY, WZ,
    A_, B_, C_, D_, E_, H_, L_, F_,
    I, R, R_,
    PC, SP, IFF,
    cpu_state, cpu_error,
    int_mode, int_nmi, int_int, int_data, int_protection,
    cpu_switch, reset, power,       \* simctl.c statics
    memory,             \* the bytes written so far, by address
    soft,               \* simglb.c: struct softbreak soft[SBSIZE]
    sb_next,            \* simglb.c: index into breakpoint memory
    proctec_kbd_status, \* proctec-vdm.c: keyboard status
    proctec_kbd_data,   \* proctec-vdm.c: keyboard data
    ev_queue,           \* the events queued for the VDM window
    asm,                \* z80asm: the globals of the assembler, by name
    pico,               \* picosim: code[] and sd_file, by name
    dev,                \* a device thread: its position and arguments
    sig_handler,        \* disposition of SIGALRM
    sig_timer,          \* the ITIMER_REAL timer: "off" or "armed"
    wrk_addr,           \* ICE: address the memory commands work at
    cpu_bus,            \* the set of bus status bits that are on
    m1_step, bus_request,
    bus_mode,           \* simglb.c: BusDMA_t bus_mode
    dma_bus_master,     \* simglb.c: the DMA bus master callback, or "NULL"
    T,                  \* simglb.c: Tstates_t T, the CPU clock
    fp_led_address, fp_led_data, fp_led_wait, mem_wp,
    p_tab,              \* page attributes other than MEM_RW, by page
    R_flag,             \* option -R
    boot_switch,        \* boot address for the INT/BOOT switch
    boot_switch_M,      \* _boot_switch[M_flag]
    loc,                \* locals of the function the CPU thread is in
    at,                 \* position of the CPU thread
    stack,              \* return positions of the CPU thread
    last_op,            \* the operation that produced this state
    retval,             \* value returned by the last function that returned
    raised,             \* the cpu_error the executor raised in this run
    closed,             \* the panel window has been closed
    ncmds,              \* ICE commands issued so far
    ex_calls,           \* executor invocations of the step_cpu in progress
    stop_req,           \* a stop request has been issued for this run
    after_stop          \* instructions begun since the stop request

dataVars == <<cpu, A, B, C, D, E, H, L, F, IX, IY, WZ,
              A_, B_, C_, D_, E_, H_, L_, F_, I, R, R_, PC, SP, IFF,
              cpu_state, cpu_error,
              int_mode, int_nmi, int_int, int_data, int_protection,
              cpu_switch, reset, power,
              memory, soft, sb_next, proctec_kbd_status, proctec_kbd_data,
              ev_queue, asm, pico, dev, sig_handler, sig_timer, wrk_addr,
              cpu_bus, m1_step, bus_request, bus_mode, dma_bus_master, T,
              fp_led_address, fp_led_data, fp_led_wait, mem_wp, p_tab>>

confVars == <<build, machine, R_flag, boot_switch, boot_switch_M>>

ctlVars == <<at, stack, loc, last_op, retval, raised, closed, ncmds, ex_calls,
             stop_req, after_stop>>

vars == <<confVars, dataVars, ctlVars>>

HasZ80 == build # "EXCLUDE_Z80"
HasI8080 == build # "EXCLUDE_I8080"

\* the program's variables take the values the update gives them and keep
\* their value otherwise
Assign(upd) ==
    /\ cpu' = Val(upd, "cpu", cpu)
    /\ A' = Val(upd, "A", A)
    /\ B' = Val(upd, "B", B)
    /\ C' = Val(upd, "C", C)
    /\ D' = Val(upd, "D", D)
    /\ E' = Val(upd, "E", E)
    /\ H' = Val(upd, "H", H)
    /\ L' = Val(upd, "L", L)
    /\ F' = Val(upd, "F", F)
    /\ IX' = Val(upd, "IX", IX)
    /\ IY' = Val(upd, "IY", IY)
    /\ WZ' = Val(upd, "WZ", WZ)
    /\ A_' = Val(upd, "A_", A_)
    /\ B_' = Val(upd, "B_", B_)
    /\ C_' = Val(upd, "C_", C_)
    /\ D_' = Val(upd, "D_", D_)
    /\ E_' = Val(upd, "E_", E_)
    /\ H_' = Val(upd, "H_", H_)
    /\ L_' = Val(upd, "L_", L_)
    /\ F_' = Val(upd, "F_", F_)
    /\ I' = Val(upd, "I", I)
    /\ R' = Val(upd, "R", R)
    /\ R_' = Val(upd, "R_", R_)
    /\ PC' = Val(upd, "PC", PC)
    /\ SP' = Val(upd, "SP", SP)
    /\ IFF' = Val(upd, "IFF", IFF)
    /\ cpu_state' = Val(upd, "cpu_state", cpu_state)
    /\ cpu_error' = Val(upd, "cpu_error", cpu_error)
    /\ int_mode' = Val(upd, "int_mode", int_mode)
    /\ int_nmi' = Val(upd, "int_nmi", int_nmi)
    /\ int_int' = Val(upd, "int_int", int_int)
    /\ int_data' = Val(upd, "int_data", int_data)
    /\ int_protection' = Val(upd, "int_protection", int_protection)
    /\ cpu_switch' = Val(upd, "cpu_switch", cpu_switch)
    /\ reset' = Val(upd, "reset", reset)
    /\ power' = Val(upd, "power", power)
    /\ memory' = Val(upd, "memory", memory)
    /\ soft' = Val(upd, "soft", soft)
    /\ sb_next' = Val(upd, "sb_next", sb_next)
    /\ proctec_kbd_status' = Val(upd, "proctec_kbd_status",
                                 proctec_kbd_status)
    /\ proctec_kbd_data' = Val(upd, "proctec_kbd_data", proctec_kbd_data)
    /\ ev_queue' = Val(upd, "ev_queue", ev_queue)
    /\ asm' = Val(upd, "asm", asm)
    /\ pico' = Val(upd, "pico", pico)
    /\ dev' = Val(upd, "dev", dev)
    /\ sig_handler' = Val(upd, "sig_handler", sig_handler)
    /\ sig_timer' = Val(upd, "sig_timer", sig_timer)
    /\ wrk_addr' = Val(upd, "wrk_addr", wrk_addr)
    /\ cpu_bus' = Val(upd, "cpu_bus", cpu_bus)
    /\ m1_step' = Val(upd, "m1_step", m1_step)
    /\ bus_request' = Val(upd, "bus_request", bus_request)
    /\ bus_mode' = Val(upd, "bus_mode", bus_mode)
    /\ dma_bus_master' = Val(upd, "dma_bus_master", dma_bus_master)
    /\ T' = Val(upd, "T", T)
    /\ fp_led_address' = Val(upd, "fp_led_address", fp_led_address)
    /\ fp_led_data' = Val(upd, "fp_led_data", fp_led_data)
    /\ fp_led_wait' = Val(upd, "fp_led_wait", fp_led_wait)
    /\ mem_wp' = Val(upd, "mem_wp", mem_wp)
    /\ p_tab' = Val(upd, "p_tab", p_tab)

(***************************************************************************)
(* Static initialisation of the globals (simglb.c): everything is zero     *)
(* except cpu = DEF_CPU and int_data = -1.                                 *)
(***************************************************************************)
StaticData ==
    /\ A = 0 /\ B = 0 /\ C = 0 /\ D = 0 /\ E = 0 /\ H = 0 /\ L = 0 /\ F = 0
    /\ IX = 0 /\ IY = 0 /\ WZ = 0
    /\ A_ = 0 /\ B_ = 0 /\ C_ = 0 /\ D_ = 0 /\ E_ = 0 /\ H_ = 0 /\ L_ = 0
    /\ F_ = 0
    /\ I = 0 /\ R = 0 /\ R_ = 0
    /\ PC = 0 /\ SP = 0 /\ IFF = 0
    /\ cpu_state = STOPPED /\ cpu_error = NONE
    /\ int_mode = 0 /\ int_nmi = 0 /\ int_int = 0 /\ int_data = -1
    /\ int_protection = 0
    /\ cpu_switch = 0 /\ reset = 0 /\ power = 0
    /\ memory = NoUpd
    /\ soft = [i \in 0 .. SBSIZE - 1 |->
                 [sb_addr |-> 0, sb_oldopc |-> 0, sb_pass |-> 0,
                  sb_passcount |-> 0]]
    /\ sb_next = 0
    /\ proctec_kbd_status = 1 /\ proctec_kbd_data = -1 /\ ev_queue = <<>>
    /\ asm = [rpc |-> 0, pc |-> 0, phs_flag |-> 0, pass |-> 0,
              iflevel |-> 0, gencode |-> 1,
              condnest |-> [i \in 0 .. IFNEST - 1 |-> 0], errnum |-> 0]
    /\ pico = [code |-> NoUpd, sd_file |-> [len |-> 0, fptr |-> 0]]
    /\ dev = [at |-> "idle", arg |-> <<>>]
    /\ sig_handler = "SIG_DFL" /\ sig_timer = "off"
    /\ wrk_addr = 0
    /\ cpu_bus = {} /\ m1_step = 0 /\ bus_request = 0
    /\ bus_mode = "BUS_DMA_NONE" /\ dma_bus_master = "NULL" /\ T = 0
    /\ fp_led_address = 0 /\ fp_led_data = 0 /\ fp_led_wait = 0
    /\ mem_wp = 0
    /\ p_tab = NoUpd

StaticCtl ==
    /\ stack = <<>> /\ loc = 0 /\ ncmds = 0 /\ ex_calls = 0
    /\ stop_req = FALSE /\ after_stop = 0
    /\ retval = 0 /\ raised = NONE /\ closed = FALSE

(***************************************************************************)
(* rand(): the values successive calls return are a tape chosen when       *)
(* init_cpu runs.  The tapes are the constant tapes 0 and RAND_MAX and     *)
(* mixed tapes.                                                            *)
(***************************************************************************)
NRand == 20

Tape(k) == [i \in 1 .. NRand |-> (k * (i * 4111 + 65535)) % RAND_MAX]

Tapes == {Tape(k) : k \in 0 .. MaxTape} \cup {[i \in 1 .. NRand |-> RAND_MAX]}

(***************************************************************************)
(* simcore.c: init_cpu                                                     *)
(***************************************************************************)
\* a slip: A cleared instead of randomized
init_cpu_A0(t) ==
    [PC |-> 0, SP |-> t[1] % 65536, A |-> 0, B |-> t[3] % 256,
     C |-> t[4] % 256, D |-> t[5] % 256, E |-> t[6] % 256, H |-> t[7] % 256,
     L |-> t[8] % 256,
     F |-> IF HasI8080 /\ cpu = I8080
           THEN BitOr(BitClr(t[9] % 256, Y_FLAG + X_FLAG), N_FLAG)
           ELSE t[9] % 256]
    @@ (IF HasZ80
        THEN [I |-> 0, A_ |-> t[10] % 256, B_ |-> t[11] % 256,
              C_ |-> t[12] % 256, D_ |-> t[13] % 256, E_ |-> t[14] % 256,
              H_ |-> t[15] % 256, L_ |-> t[16] % 256, F_ |-> t[17] % 256,
              IX |-> t[18] % 65536, IY |-> t[19] % 65536,
              WZ |-> t[20] % 65536]
        ELSE NoUpd)

init_cpu(t) ==
    LET same == [PC |-> 0,
                 SP |-> t[1] % 65536,
                 A |-> t[2] % 256,
                 B |-> t[3] % 256,
                 C |-> t[4] % 256,
                 D |-> t[5] % 256,
                 E |-> t[6] % 256,
                 H |-> t[7] % 256,
                 L |-> t[8] % 256,
                 F |-> t[9] % 256]
        z80 == IF HasZ80
               THEN [I |-> 0,
                     A_ |-> t[10] % 256,
                     B_ |-> t[11] % 256,
                     C_ |-> t[12] % 256,
                     D_ |-> t[13] % 256,
                     E_ |-> t[14] % 256,
                     H_ |-> t[15] % 256,
                     L_ |-> t[16] % 256,
                     F_ |-> t[17] % 256,
                     IX |-> t[18] % 65536,
                     IY |-> t[19] % 65536,
                     WZ |-> t[20] % 65536]
               ELSE NoUpd
        i8080 == IF HasI8080 /\ cpu = I8080
                 THEN [F |-> BitOr(BitClr(same.F, Y_FLAG + X_FLAG), N_FLAG)]
                 ELSE NoUpd
    IN  Then(Then(same, z80), i8080)

(***************************************************************************)
(* simcore.c: reset_cpu                                                    *)
(***************************************************************************)
\* a slip: int_protection left out of the chained assignment
reset_cpu_noprot ==
    [IFF |-> 0, int_int |-> 0, int_data |-> -1, PC |-> 0]
    @@ (IF HasZ80
        THEN [I |-> 0, R_ |-> 0, R |-> 0, int_nmi |-> 0, int_mode |-> 0]
        ELSE NoUpd)

reset_cpu ==
    LET same == [IFF |-> 0, int_int |-> 0, int_protection |-> 0,
                 int_data |-> -1, PC |-> 0]
        z80 == IF HasZ80
               THEN [I |-> 0, R_ |-> 0, R |-> 0, int_nmi |-> 0, int_mode |-> 0]
               ELSE NoUpd
    IN  Then(same, z80)

(***************************************************************************)
(* simcore.c: switch_cpu                                                   *)
(***************************************************************************)
\* switch_cpu without the test of the current model
switch_cpu_always(new_cpu) ==
    Then(IF new_cpu = I8080
         THEN [F |-> BitOr(BitClr(F, Y_FLAG + X_FLAG), N_FLAG)]
         ELSE NoUpd,
         [cpu |-> new_cpu, cpu_state |-> MODEL_SWITCH])

switch_cpu(new_cpu) ==
    IF cpu # new_cpu
    THEN Then(IF new_cpu = I8080
              THEN [F |-> BitOr(BitClr(F, Y_FLAG + X_FLAG), N_FLAG)]
              ELSE NoUpd,
              [cpu |-> new_cpu, cpu_state |-> MODEL_SWITCH])
    ELSE NoUpd

(***************************************************************************)
(* simcore.c: start_bus_request, end_bus_request.  A bus master callback   *)
(* is named by a string, "NULL" is the null pointer.                       *)
(***************************************************************************)
BusModes == {"BUS_DMA_NONE", "BUS_DMA_BYTE", "BUS_DMA_BURST",
             "BUS_DMA_CONTINUOUS"}

\* start_bus_request that does not register the bus master
start_bus_request_nomaster(mode, bus_master) ==
    [bus_mode |-> mode, bus_request |-> 1]

start_bus_request(mode, bus_master) ==
    [bus_mode |-> mode, dma_bus_master |-> bus_master, bus_request |-> 1]

\* end_bus_request that leaves the callback registered
end_bus_request_keep ==
    [bus_mode |-> "BUS_DMA_NONE", bus_request |-> 0]

end_bus_request ==
    [bus_mode |-> "BUS_DMA_NONE", dma_bus_master |-> "NULL",
     bus_request |-> 0]

(***************************************************************************)
(* Text.  A C string is the sequence of its characters; ctype.h and the    *)
(* character codes are those of ASCII.                                     *)
(***************************************************************************)
Digits == <<"0", "1", "2", "3", "4", "5", "6", "7", "8", "9">>
LowerAF == <<"a", "b", "c", "d", "e", "f">>
UpperAF == <<"A", "B", "C", "D", "E", "F">>

Index(seq, c) == CHOOSE i \in 1 .. Len(seq) : seq[i] = c
InSeq(seq, c) == \E i \in 1 .. Len(seq) : seq[i] = c

isxdigit(c) == InSeq(Digits, c) \/ InSeq(LowerAF, c) \/ InSeq(UpperAF, c)

\* character code of a hexadecimal digit
Code(c) ==
    IF InSeq(Digits, c) THEN 47 + Index(Digits, c)
    ELSE IF InSeq(UpperAF, c) THEN 64 + Index(UpperAF, c)
    ELSE 96 + Index(LowerAF, c)

toupper(code) == IF code >= 97 /\ code <= 122 THEN code - 32 ELSE code

(***************************************************************************)
(* simcore.c: exatoi                                                       *)
(***************************************************************************)
RECURSIVE exatoi_loop(_, _)
exatoi_loop(str, num) ==
    IF str # <<>> /\ isxdigit(Head(str))
    THEN exatoi_loop(Tail(str),
                     num * 16 + (IF Code(Head(str)) <= 57
                                 THEN Code(Head(str)) - 48
                                 ELSE toupper(Code(Head(str))) - 55))
    ELSE num

exatoi(str) == exatoi_loop(str, 0)

(***************************************************************************)
(* ice.c: register definitions table and do_reg                            *)
(***************************************************************************)
R_8 == 1
R_88 == 2
R_16 == 3
R_F == 4
R_M == 5

regs_z80_1 ==
    << [name |-> <<"b", "c", "'">>, z80 |-> 1, type |-> R_88, r8h |-> "B_", r8l |-> "C_"],
       [name |-> <<"d", "e", "'">>, z80 |-> 1, type |-> R_88, r8h |-> "D_", r8l |-> "E_"],
       [name |-> <<"h", "l", "'">>, z80 |-> 1, type |-> R_88, r8h |-> "H_", r8l |-> "L_"] >>

regs_1 ==
    << [name |-> <<"p", "c">>, z80 |-> 0, type |-> R_16, r16 |-> "PC"],
       [name |-> <<"b", "c">>, z80 |-> 0, type |-> R_88, r8h |-> "B", r8l |-> "C"],
       [name |-> <<"d", "e">>, z80 |-> 0, type |-> R_88, r8h |-> "D", r8l |-> "E"],
       [name |-> <<"h", "l">>, z80 |-> 0, type |-> R_88, r8h |-> "H", r8l |-> "L"] >>

regs_z80_2 ==
    << [name |-> <<"i", "x">>, z80 |-> 1, type |-> R_16, r16 |-> "IX"],
       [name |-> <<"i", "y">>, z80 |-> 1, type |-> R_16, r16 |-> "IY"] >>

regs_2 ==
    << [name |-> <<"s", "p">>, z80 |-> 0, type |-> R_16, r16 |-> "SP"],
       [name |-> <<"f", "s">>, z80 |-> 0, type |-> R_M, rm |-> S_FLAG],
       [name |-> <<"f", "z">>, z80 |-> 0, type |-> R_M, rm |-> Z_FLAG],
       [name |-> <<"f", "h">>, z80 |-> 0, type |-> R_M, rm |-> H_FLAG],
       [name |-> <<"f", "p">>, z80 |-> 0, type |-> R_M, rm |-> P_FLAG] >>

regs_z80_3 ==
    << [name |-> <<"f", "n">>, z80 |-> 1, type |-> R_M, rm |-> N_FLAG] >>

regs_3 ==
    << [name |-> <<"f", "c">>, z80 |-> 0, type |-> R_M, rm |-> C_FLAG] >>

regs_z80_4 ==
    << [name |-> <<"a", "'">>, z80 |-> 1, type |-> R_8, r8 |-> "A_"],
       [name |-> <<"f", "'">>, z80 |-> 1, type |-> R_F, rf |-> "F_"],
       [name |-> <<"b", "'">>, z80 |-> 1, type |-> R_8, r8 |-> "B_"],
       [name |-> <<"c", "'">>, z80 |-> 1, type |-> R_8, r8 |-> "C_"],
       [name |-> <<"d", "'">>, z80 |-> 1, type |-> R_8, r8 |-> "D_"],
       [name |-> <<"e", "'">>, z80 |-> 1, type |-> R_8, r8 |-> "E_"],
       [name |-> <<"h", "'">>, z80 |-> 1, type |-> R_8, r8 |-> "H_"],
       [name |-> <<"l", "'">>, z80 |-> 1, type |-> R_8, r8 |-> "L_"],
       [name |-> <<"i">>, z80 |-> 1, type |-> R_8, r8 |-> "I"] >>

regs_4 ==
    << [name |-> <<"a">>, z80 |-> 0, type |-> R_8, r8 |-> "A"],
       [name |-> <<"f">>, z80 |-> 0, type |-> R_F, rf |-> "F"],
       [name |-> <<"b">>, z80 |-> 0, type |-> R_8, r8 |-> "B"],
       [name |-> <<"c">>, z80 |-> 0, type |-> R_8, r8 |-> "C"],
       [name |-> <<"d">>, z80 |-> 0, type |-> R_8, r8 |-> "D"],
       [name |-> <<"e">>, z80 |-> 0, type |-> R_8, r8 |-> "E"],
       [name |-> <<"h">>, z80 |-> 0, type |-> R_8, r8 |-> "H"],
       [name |-> <<"l">>, z80 |-> 0, type |-> R_8, r8 |-> "L"] >>

\* the table as the build compiles it (#ifndef EXCLUDE_Z80 sections)
regs ==
    IF HasZ80
    THEN regs_z80_1 \o regs_1 \o regs_z80_2 \o regs_2 \o regs_z80_3
         \o regs_3 \o regs_z80_4 \o regs_4
    ELSE regs_1 \o regs_2 \o regs_3 \o regs_4

nregs == Len(regs)

\* strncmp(s, name, len) == 0 with len == strlen(name)
strncmp_eq(s, name) ==
    Len(s) >= Len(name) /\ SubSeq(s, 1, Len(name)) = name

\* the register the search loop of do_reg stops at, nregs + 1 if none
reg_lookup(s) ==
    LET hit(i) == /\ ~ (HasZ80 /\ regs[i].z80 = 1 /\ cpu # Z80)
                  /\ strncmp_eq(s, regs[i].name)
    IN  IF \E i \in 1 .. nregs : hit(i)
        THEN CHOOSE i \in 1 .. nregs : hit(i) /\ \A j \in 1 .. i - 1 : ~ hit(j)
        ELSE nregs + 1

\* s: the command line after "x" and white space; nv: the line read for the
\* new value, << >> when fgets returns NULL
do_reg(s, nv) ==
    IF s = <<>> THEN NoUpd
    ELSE LET i == reg_lookup(s) IN
         IF i > nregs \/ nv = <<>> \/ Head(nv) = "\n" THEN NoUpd
         ELSE LET p == regs[i]
                  w == exatoi(nv) % 65536
              IN  CASE p.type = R_8 -> (p.r8 :> (w % 256))
                    [] p.type = R_88 -> (p.r8h :> ((w \div 256) % 256))
                                        @@ (p.r8l :> (w % 256))
                    [] p.type = R_16 -> (p.r16 :> w)
                    [] p.type = R_F -> (p.rf :> (w % 256))
                    [] p.type = R_M -> [F |-> IF w # 0 THEN BitOr(F, p.rm)
                                                     ELSE BitClr(F, p.rm)]

(***************************************************************************)
(* Instructions and devices that write the interrupt state (simz80.c,      *)
(* sim8080.c and the I/O modules; described by the specification text).    *)
(***************************************************************************)
\* EI that does not protect the next instruction
op_ei_noprot == [IFF |-> 3]

op_ei == [IFF |-> 3, int_protection |-> 1]

op_im(mode) == [int_mode |-> mode]

op_ldra == [R |-> A % 128, R_ |-> A - (A % 128)]

op_ldia == [I |-> A]

request_interrupt(data) == [int_data |-> data, int_int |-> 1]

request_nmi == [int_nmi |-> 1]

(***************************************************************************)
(* SpecRegs: the register-file operations applied in any order.            *)
(***************************************************************************)
RegCmds == { <<"f", "\n">>, <<"f", "n", "\n">>, <<"f", "z", "\n">>,
             <<"p", "c", "\n">>, <<"i", "\n">>, <<"b", "c", "'", "\n">>,
             <<"q", "\n">> }

NewVals == { <<>>, <<"\n">>, <<"0", "\n">>, <<"f", "F", "\n">>,
             <<"1", "2", "3", "4", "5", "\n">> }

InitRegs ==
    /\ build \in {"BOTH", "EXCLUDE_I8080", "EXCLUDE_Z80"}
    /\ machine = "regs"
    /\ R_flag = 0 /\ boot_switch = 0 /\ boot_switch_M = 0
    /\ cpu \in {Z80, I8080}
    /\ build = "EXCLUDE_I8080" => cpu = Z80
    /\ build = "EXCLUDE_Z80" => cpu = I8080
    /\ StaticData /\ StaticCtl
    /\ at = "boot"
    /\ last_op = "static"

Ctl(pos, op) ==
    /\ at' = pos
    /\ last_op' = op
    /\ UNCHANGED <<confVars, stack, loc, retval, raised, closed, ex_calls,
                   stop_req, after_stop>>

RInitCpu ==
    /\ at = "boot"
    /\ \E t \in Tapes : Assign(init_cpu(t))
    /\ Ctl("ready", "init_cpu") /\ UNCHANGED ncmds

RResetCpu ==
    /\ at = "ready"
    /\ Assign(reset_cpu)
    /\ Ctl("ready", "reset_cpu") /\ UNCHANGED ncmds

RSwitchCpu ==
    /\ at = "ready" /\ build = "BOTH"
    /\ \E new_cpu \in {Z80, I8080} : Assign(switch_cpu(new_cpu))
    /\ Ctl("ready", "switch_cpu") /\ UNCHANGED ncmds

RDoReg ==
    /\ at = "ready" /\ ncmds < MaxRegCmds
    /\ \E s \in RegCmds, nv \in NewVals : Assign(do_reg(s, nv))
    /\ ncmds' = ncmds + 1
    /\ Ctl("ready", "do_reg")

RInstr ==
    /\ at = "ready" /\ ncmds < MaxRegCmds
    /\ \/ Assign(op_ei)
       \/ HasZ80 /\ cpu = Z80 /\ \E mode \in 0 .. 2 : Assign(op_im(mode))
       \/ HasZ80 /\ cpu = Z80 /\ Assign(op_ldra)
       \/ Assign(request_interrupt(16))
       \/ HasZ80 /\ cpu = Z80 /\ Assign(request_nmi)
    /\ ncmds' = ncmds + 1
    /\ Ctl("ready", "instr")

\* the arguments of start_bus_request, and the bus mode and the bus master
\* end_bus_request found, are kept in loc
CtlArg(pos, op, arg) ==
    /\ at' = pos
    /\ last_op' = op
    /\ loc' = arg
    /\ UNCHANGED <<confVars, stack, retval, raised, closed, ex_calls,
                   stop_req, after_stop>>

BusArgs == {"BUS_DMA_BYTE", "BUS_DMA_CONTINUOUS"} \X {"dma_read", "dma_write"}

RStartBusRequest ==
    /\ at = "ready" /\ ncmds < MaxRegCmds
    /\ \E a \in BusArgs :
          /\ Assign(start_bus_request(a[1], a[2]))
          /\ CtlArg("ready", "start_bus_request", a)
    /\ ncmds' = ncmds + 1

REndBusRequest ==
    /\ at = "ready" /\ ncmds < MaxRegCmds
    /\ Assign(end_bus_request)
    /\ ncmds' = ncmds + 1
    /\ CtlArg("ready", "end_bus_request", <<bus_mode, dma_bus_master>>)

NextRegs ==
    \/ RInitCpu \/ RResetCpu \/ RSwitchCpu \/ RDoReg \/ RInstr
    \/ RStartBusRequest \/ REndBusRequest

SpecRegs == InitRegs /\ [][NextRegs]_vars

(***************************************************************************)
(* Properties of the register-file operations (SpecRegs).                  *)
(***************************************************************************)
ByteSamples == {0, 255}
WordSamples == {0, 65535}

\* the F register init_cpu leaves for the random byte v
InitF(v) ==
    IF HasI8080 /\ cpu = I8080
    THEN BitOr(BitClr(v, Y_FLAG + X_FLAG), N_FLAG)
    ELSE v

\* C8: after reset_cpu, from any pre-state, IFF, int_int and int_protection
\* are 0, int_data is -1 and PC is 0; in a build with Z80 support I, R, R_
\* and int_mode are 0 as well.
C8_ResetCpu ==
    last_op = "reset_cpu" =>
        /\ IFF = 0 /\ int_int = 0 /\ int_protection = 0
        /\ int_data = -1 /\ PC = 0
        /\ HasZ80 => (I = 0 /\ R = 0 /\ R_ = 0 /\ int_mode = 0)

\* a reset that had something to clear: the state reset_cpu left, in a Z80
\* build, after two commands had written the interrupt state
C8_Witness ==
    last_op = "reset_cpu" /\ HasZ80 /\ ncmds = 2 /\ IFF = 0
    /\ int_protection = 0 /\ int_data = -1

C10_Original ==
    (at = "ready" /\ cpu = I8080) =>
        (Bit(F, 1) = 1 /\ Bit(F, 5) = 0 /\ Bit(F, 3) = 0)


(***************************************************************************)
(* The scheduler.  A function that calls the executor is a table from a    *)
(* position in its body to the step taken there: the assignments made, and *)
(* where control goes next: another position, a call (the position to come *)
(* back to is pushed on stack) or a return to the caller.                  *)
(***************************************************************************)
MaxPC == 1          \* the executor lets PC count up to this address
MaxIceCmds == 2     \* ICE commands per behaviour
MaxPass == 2        \* passes counted at one software breakpoint

\* go on at position to of the same function
Res(upd, to) ==
    [upd |-> upd, to |-> to, push |-> <<>>, arg |-> 0, ret |-> 0]

\* call fn(arg); the caller goes on at position back with its locals keep
CallArg(upd, fn, arg, back, keep) ==
    [upd |-> upd, to |-> fn, push |-> <<[pos |-> back, loc |-> keep]>>,
     arg |-> arg, ret |-> 0]

Call(upd, fn, back, keep) == CallArg(upd, fn, 0, back, keep)

\* return v to the caller
Return(upd, v) ==
    [upd |-> upd, to |-> "return", push |-> <<>>, arg |-> 0, ret |-> v]

\* switch (cpu) in run_cpu and step_cpu: the executor compiled in for cpu
Executor(c) ==
    IF c = Z80 /\ HasZ80 THEN "cpu_z80"
    ELSE IF c = I8080 /\ HasI8080 THEN "cpu_8080"
    ELSE "none"

While(m) == IF m = "cpu_z80" THEN "cpu_z80_while" ELSE "cpu_8080_while"

ExecPos == {"cpu_z80", "cpu_8080"}
ExecWhilePos == {"cpu_z80_while", "cpu_8080_while"}

\* run_cpu that clears cpu_error again once the executor is back
run_cpu_clr(pos) ==
    CASE pos = "run_cpu" -> Res([cpu_state |-> CONTIN_RUN], "run_cpu_1")
      [] pos = "run_cpu_1" -> Res([cpu_error |-> NONE], "run_cpu_call")
      [] pos = "run_cpu_call" ->
            IF Executor(cpu) # "none"
            THEN Call(NoUpd, Executor(cpu), "run_cpu_ret", 0)
            ELSE Res(NoUpd, "run_cpu_ret")
      [] pos = "run_cpu_ret" ->
            IF cpu_state = MODEL_SWITCH
            THEN Res(NoUpd, "run_cpu_sw")
            ELSE Return([cpu_error |-> NONE], 0)
      [] pos = "run_cpu_sw" -> Res([cpu_state |-> CONTIN_RUN], "run_cpu_call")

\* simcore.c run_cpu: for (;;) { switch (cpu) ...; if (cpu_state ==
\* MODEL_SWITCH) { cpu_state = CONTIN_RUN; continue; } else break; }
run_cpu(pos) ==
    CASE pos = "run_cpu" -> Res([cpu_state |-> CONTIN_RUN], "run_cpu_1")
      [] pos = "run_cpu_1" -> Res([cpu_error |-> NONE], "run_cpu_call")
      [] pos = "run_cpu_call" ->
            IF Executor(cpu) # "none"
            THEN Call(NoUpd, Executor(cpu), "run_cpu_ret", 0)
            ELSE Res(NoUpd, "run_cpu_ret")
      [] pos = "run_cpu_ret" ->
            IF cpu_state = MODEL_SWITCH
            THEN Res(NoUpd, "run_cpu_sw")
            ELSE Return(NoUpd, 0)
      [] pos = "run_cpu_sw" -> Res([cpu_state |-> CONTIN_RUN], "run_cpu_call")

\* altairsim simctl.c run_cpu: one invocation of the executor, then
\* report_cpu_error()
simctl_run_cpu(pos) ==
    CASE pos = "run_cpu" -> Res([cpu_state |-> CONTIN_RUN], "run_cpu_1")
      [] pos = "run_cpu_1" -> Res([cpu_error |-> NONE], "run_cpu_call")
      [] pos = "run_cpu_call" ->
            IF Executor(cpu) # "none"
            THEN Call(NoUpd, Executor(cpu), "run_cpu_ret", 0)
            ELSE Res(NoUpd, "run_cpu_ret")
      [] pos = "run_cpu_ret" -> Return(NoUpd, 0)

RunPos == {"run_cpu", "run_cpu_1", "run_cpu_call", "run_cpu_ret", "run_cpu_sw"}

\* step_cpu that leaves cpu_state as the caller had it
step_cpu_nostate(pos) ==
    CASE pos = "step_cpu" -> Res(NoUpd, "step_cpu_1")
      [] pos = "step_cpu_1" -> Res([cpu_error |-> NONE], "step_cpu_call")
      [] pos = "step_cpu_call" ->
            IF Executor(cpu) # "none"
            THEN Call(NoUpd, Executor(cpu), "step_cpu_ret", 0)
            ELSE Res(NoUpd, "step_cpu_ret")
      [] pos = "step_cpu_ret" -> Return([cpu_state |-> STOPPED], 0)

\* simcore.c step_cpu (altairsim simctl.c step_cpu has the same statements
\* and reports the error itself)
step_cpu(pos) ==
    CASE pos = "step_cpu" -> Res([cpu_state |-> SINGLE_STEP], "step_cpu_1")
      [] pos = "step_cpu_1" -> Res([cpu_error |-> NONE], "step_cpu_call")
      [] pos = "step_cpu_call" ->
            IF Executor(cpu) # "none"
            THEN Call(NoUpd, Executor(cpu), "step_cpu_ret", 0)
            ELSE Res(NoUpd, "step_cpu_ret")
      [] pos = "step_cpu_ret" -> Return([cpu_state |-> STOPPED], 0)

StepPos == {"step_cpu", "step_cpu_1", "step_cpu_call", "step_cpu_ret"}

(***************************************************************************)
(* The executors cpu_z80 and cpu_8080:                                     *)
(*     do { one instruction } while (cpu_state == CONTIN_RUN);             *)
(* An instruction either completes, or raises an error (cpu_error set and  *)
(* cpu_state = STOPPED), or is an I/O instruction whose port handler       *)
(* selects a CPU model with switch_cpu.                                    *)
(***************************************************************************)
instructions ==
    (IF PC < MaxPC THEN {[PC |-> PC + 1]} ELSE {})
    \cup {[PC |-> 0]}
    \cup (IF PC < MaxPC /\ IFF = 0
          THEN {[PC |-> PC + 1, cpu_error |-> OPHALT, cpu_state |-> STOPPED]}
          ELSE {})
    \cup {[cpu_error |-> IOERROR, cpu_state |-> STOPPED]}
    \cup (IF build = "BOTH"
          THEN {switch_cpu(Z80), switch_cpu(I8080)}
          ELSE {})

cpu_loop(m, pos) ==
    IF pos = m
    THEN {Res(u, While(m)) : u \in instructions}
    ELSE {IF cpu_state = CONTIN_RUN THEN Res(NoUpd, m) ELSE Return(NoUpd, 0)}

(***************************************************************************)
(* Memory as the ICE sees it: getmem and putmem of the machine's memory.h. *)
(***************************************************************************)
getmem(addr) == IF addr \in DOMAIN memory THEN memory[addr] ELSE MemFill

putmem(mem, addr, data) == (addr :> data) @@ mem

(***************************************************************************)
(* simice.c: the commands that start the CPU                               *)
(***************************************************************************)
isspace(c) == c \in {" ", "\n", "\t", "\r"}

RECURSIVE skip_space(_)
skip_space(s) ==
    IF s # <<>> /\ isspace(Head(s)) THEN skip_space(Tail(s)) ELSE s

\* atoi of a string that starts with a hexadecimal digit: the value of the
\* decimal digits in front
RECURSIVE atoi_loop(_, _)
atoi_loop(str, num) ==
    IF str # <<>> /\ InSeq(Digits, Head(str))
    THEN atoi_loop(Tail(str), num * 10 + Index(Digits, Head(str)) - 1)
    ELSE num

atoi(str) == atoi_loop(str, 0)

iscntrl(c) == c \in {"\n", "\t", "\r"}
ispunct(c) == c \in {",", ".", ";", ":"}

\* while (!iscntrl(*s) && !ispunct(*s)) s++; the end of the string is a
\* control character
RECURSIVE skip_word(_)
skip_word(s) ==
    IF s # <<>> /\ ~ iscntrl(Head(s)) /\ ~ ispunct(Head(s))
    THEN skip_word(Tail(s)) ELSE s

\* memset of soft[i]
soft_clear == [sb_addr |-> 0, sb_oldopc |-> 0, sb_pass |-> 0,
               sb_passcount |-> 0]

\* s: the command line after "b"
do_break(s) ==
    IF s # <<>> /\ Head(s) = "\n" THEN NoUpd
    ELSE LET num == s # <<>> /\ isxdigit(Head(s))
             i == IF num THEN atoi(s) ELSE sb_next
             nxt == IF num THEN sb_next
                    ELSE IF sb_next + 1 = SBSIZE THEN 0 ELSE sb_next + 1
             t == skip_space(IF num THEN Tail(s) ELSE s)
         IN  IF i >= SBSIZE THEN NoUpd
             ELSE IF t # <<>> /\ Head(t) = "c"
             THEN [memory |-> putmem(memory, soft[i].sb_addr,
                                     soft[i].sb_oldopc),
                   soft |-> [soft EXCEPT ![i] = soft_clear],
                   sb_next |-> nxt]
             ELSE LET mem == IF soft[i].sb_pass # 0
                             THEN putmem(memory, soft[i].sb_addr,
                                         soft[i].sb_oldopc)
                             ELSE memory
                      addr == exatoi(t) % 65536
                      old == IF addr \in DOMAIN mem THEN mem[addr]
                             ELSE MemFill
                      u == skip_word(t)
                      pass == IF u # <<>> /\ Head(u) = ","
                              THEN exatoi(Tail(u)) ELSE 1
                  IN  [memory |-> putmem(mem, addr, 118),
                       soft |-> [soft EXCEPT ![i] =
                                    [sb_addr |-> addr, sb_oldopc |-> old,
                                     sb_pass |-> pass, sb_passcount |-> 0]],
                       sb_next |-> nxt]

\* while (*s != ',' && *s != '\0') s++
RECURSIVE skip_to_comma(_)
skip_to_comma(s) ==
    IF s # <<>> /\ Head(s) # "," THEN skip_to_comma(Tail(s)) ELSE s

\* while (count--) putmem(a2++, getmem(a1++)) with a1 and a2 of type WORD
RECURSIVE move_loop(_, _, _, _)
move_loop(mem, a1, a2, count) ==
    IF count = 0 THEN mem
    ELSE move_loop(putmem(mem, a2,
                          IF a1 \in DOMAIN mem THEN mem[a1] ELSE MemFill),
                   (a1 + 1) % 65536, (a2 + 1) % 65536, count - 1)

\* s: the command line after "v"
do_move(s) ==
    LET t == skip_space(s)
        a1 == exatoi(t) % 65536
        u == skip_to_comma(t)
    IN  IF u = <<>> THEN NoUpd
        ELSE LET a2 == exatoi(Tail(u)) % 65536
                 w == skip_to_comma(Tail(u))
             IN  IF w = <<>> THEN NoUpd
                 ELSE [memory |-> move_loop(memory, a1, a2, exatoi(Tail(w)))]

\* the cases of ice_cmd_loop's switch that start the CPU, 'b', 'v' and 'q'
ice_cmd_loop(pos, cmd) ==
    CASE pos = "ice_entry" -> Res([wrk_addr |-> PC], "ice_cmd_loop")
      [] pos = "ice_cmd_loop" ->
            CASE Head(cmd) = "\n" ->
                    Call(NoUpd, "do_step", "ice_cmd_loop", 0)
              [] Head(cmd) = "g" ->
                    CallArg(NoUpd, "do_go", Tail(cmd), "ice_cmd_loop", 0)
              [] Head(cmd) = "c" ->
                    Call(NoUpd, "do_clock", "ice_cmd_loop", 0)
              [] Head(cmd) = "b" ->
                    Res(do_break(Tail(cmd)), "ice_cmd_loop")
              [] Head(cmd) = "v" ->
                    Res(do_move(Tail(cmd)), "ice_cmd_loop")
              [] Head(cmd) = "q" -> Res(NoUpd, "exit")
              [] OTHER -> Res(NoUpd, "ice_cmd_loop")

do_step(pos) ==
    CASE pos = "do_step" -> Call(NoUpd, "step_cpu", "do_step_1", 0)
      [] pos = "do_step_1" ->
            IF cpu_error = OPHALT
            THEN Call(NoUpd, "handle_break", "do_step_2", 0)
            ELSE Return([wrk_addr |-> PC], 0)
      [] pos = "do_step_2" -> Return([wrk_addr |-> PC], 0)

\* s: the command line after "g"
do_go(pos, s) ==
    CASE pos = "do_go" ->
            LET t == skip_space(s)
            IN  Res(IF t # <<>> /\ isxdigit(Head(t))
                    THEN [PC |-> exatoi(t) % 65536]
                    ELSE NoUpd,
                    "do_go_loop")
      [] pos = "do_go_loop" -> Call(NoUpd, "run_cpu", "do_go_1", s)
      [] pos = "do_go_1" ->
            IF cpu_error # NONE
            THEN IF cpu_error = OPHALT
                 THEN Call(NoUpd, "handle_break", "do_go_2", s)
                 ELSE Return([wrk_addr |-> PC], 0)
            ELSE Res(NoUpd, "do_go_loop")
      [] pos = "do_go_2" ->
            IF retval = 0
            THEN Return([wrk_addr |-> PC], 0)
            ELSE Res(NoUpd, "do_go_loop")

\* handle_break that takes PC for the address of the HALT opcode
handle_break_nodec(pos, i) ==
    CASE pos = "handle_break" ->
            LET found == {k \in 0 .. SBSIZE - 1 : soft[k].sb_addr = PC - 1}
                k == CHOOSE k \in found : \A j \in found : k <= j
            IN  IF found = {}
                THEN Return(NoUpd, 0)
                ELSE Call([memory |-> putmem(memory, PC, soft[k].sb_oldopc)],
                          "step_cpu", "handle_break_1", k)
      [] pos = "handle_break_1" ->
            LET mem == putmem(memory, soft[i].sb_addr, 118)
                cnt == soft[i].sb_passcount + 1
            IN  IF cnt # soft[i].sb_pass
                THEN Return([memory |-> mem,
                             soft |-> [soft EXCEPT ![i].sb_passcount = cnt]],
                            1)
                ELSE Return([memory |-> mem,
                             soft |-> [soft EXCEPT ![i].sb_passcount = 0]],
                            0)

\* i: the local i, kept over the call of step_cpu
handle_break(pos, i) ==
    CASE pos = "handle_break" ->
            LET found == {k \in 0 .. SBSIZE - 1 : soft[k].sb_addr = PC - 1}
                k == CHOOSE k \in found : \A j \in found : k <= j
            IN  IF found = {}
                THEN Return(NoUpd, 0)
                ELSE Call([PC |-> PC - 1,
                           memory |-> putmem(memory, PC - 1,
                                             soft[k].sb_oldopc)],
                          "step_cpu", "handle_break_1", k)
      [] pos = "handle_break_1" ->
            LET mem == putmem(memory, soft[i].sb_addr, 118)
                cnt == soft[i].sb_passcount + 1
            IN  IF cnt # soft[i].sb_pass
                THEN Return([memory |-> mem,
                             soft |-> [soft EXCEPT ![i].sb_passcount = cnt]],
                            1)
                ELSE Return([memory |-> mem,
                             soft |-> [soft EXCEPT ![i].sb_passcount = 0]],
                            0)

\* save: the local array save[3], kept over the call of run_cpu
do_clock(pos, save) ==
    CASE pos = "do_clock" ->
            Call([memory |-> putmem(putmem(putmem(memory, 0, 195), 1, 0),
                                    2, 0),
                  PC |-> 0, R |-> 0,
                  sig_handler |-> "timeout", sig_timer |-> "armed"],
                 "run_cpu", "do_clock_1",
                 <<getmem(0), getmem(1), getmem(2)>>)
      [] pos = "do_clock_1" ->
            Return([sig_handler |-> "SIG_DFL",
                    memory |-> putmem(putmem(putmem(memory, 0, save[1]),
                                             1, save[2]), 2, save[3])],
                   0)

\* the SIGALRM handler of do_clock
timeout == [cpu_state |-> STOPPED]

(***************************************************************************)
(* simctl.c mon without front panel and without ICE: run the CPU, once.    *)
(***************************************************************************)
NPages == 256       \* pages of 256 bytes in p_tab

\* the page attribute of a page
p_attr(page) == IF page \in DOMAIN p_tab THEN p_tab[page] ELSE "MEM_RW"

\* memory.h fp_read: the byte the front panel shows for an address
fp_read(addr) == getmem(addr)

mon(pos) ==
    CASE pos = "mon" ->
            IF machine = "altairfp"
            THEN Res(NoUpd, "mon_while")
            ELSE Call(NoUpd, "run_cpu", "mon_end", 0)
      [] pos = "mon_end" -> Res(NoUpd, "exit")
      [] pos = "mon_while" ->
            IF cpu_error = NONE
            THEN Res(NoUpd, "mon_led")
            ELSE Res(NoUpd, "mon_off")
      [] pos = "mon_led" ->
            IF reset # 0
            THEN Res([cpu_bus |-> {}, fp_led_address |-> 65535,
                      fp_led_data |-> 255], "mon_switch")
            ELSE IF power # 0
            THEN Res([fp_led_address |-> PC,
                      mem_wp |-> IF p_attr(PC \div 256)
                                       \in {"MEM_RO", "MEM_WPROT"}
                                 THEN 1 ELSE 0,
                      fp_led_data |-> IF "INTA" \notin cpu_bus
                                      THEN fp_read(PC)
                                      ELSE IF int_data # -1
                                           THEN int_data % 256
                                           ELSE 255],
                     "mon_switch")
            ELSE Res(NoUpd, "mon_switch")
      [] pos = "mon_switch" ->
            CASE cpu_switch = 1 -> Res(NoUpd, "mon_run")
              [] cpu_switch = 2 -> Call(NoUpd, "step_cpu", "mon_step_1", 0)
              [] OTHER -> Res(NoUpd, "mon_while")
      [] pos = "mon_run" ->
            IF reset = 0
            THEN Call(NoUpd, "run_cpu", "mon_while", 0)
            ELSE Res(NoUpd, "mon_while")
      [] pos = "mon_step_1" ->
            IF cpu_switch = 2
            THEN Res(NoUpd, "mon_step_2")
            ELSE Res(NoUpd, "mon_while")
      [] pos = "mon_step_2" -> Res([cpu_switch |-> 0], "mon_while")
      [] pos = "mon_off" ->
            Res([cpu_bus |-> {}, bus_request |-> 0, IFF |-> 0,
                 fp_led_wait |-> 0, fp_led_address |-> 0, fp_led_data |-> 0],
                "exit")

MonPos == {"mon", "mon_end", "mon_while", "mon_led", "mon_switch", "mon_run",
           "mon_step_1", "mon_step_2", "mon_off"}

(***************************************************************************)
(* Spec: the programs with one thread.  machine "ice" is a simulator with  *)
(* the ICE and the scheduler of simcore.c, machine "altair" is altairsim   *)
(* built without front panel, with the scheduler of its simctl.c.          *)
(***************************************************************************)
Min(a, b) == IF a <= b THEN a ELSE b

\* the CPU thread is inside run_cpu
InRun ==
    \/ at \in RunPos
    \/ /\ at \in ExecPos \cup ExecWhilePos
       /\ stack # <<>>
       /\ Head(stack).pos = "run_cpu_ret"

\* one step of the CPU thread, with the bookkeeping of the observers
\* (ex_calls and raised observe the programs with one thread only):
\* ex_calls counts the executor calls of the current step_cpu, raised is
\* the error the executor raised since the scheduler was entered, after_stop
\* counts the instructions begun since a stop was requested in this run
Go(res) ==
    /\ Assign(res.upd)
    /\ IF res.to = "return"
       THEN /\ at' = Head(stack).pos
            /\ stack' = Tail(stack)
            /\ loc' = Head(stack).loc
            /\ retval' = res.ret
       ELSE /\ at' = res.to
            /\ stack' = res.push \o stack
            /\ loc' = IF res.push # <<>> THEN res.arg ELSE loc
            /\ retval' = retval
    /\ last_op' = at
    /\ ex_calls' = IF machine = "altairfp" THEN ex_calls
                   ELSE IF at = "step_cpu" THEN 0
                   ELSE IF at = "step_cpu_call" /\ res.to \in ExecPos
                        THEN ex_calls + 1
                        ELSE ex_calls
    /\ raised' = IF machine = "altairfp" THEN raised
                 ELSE IF at \in {"run_cpu_1", "step_cpu_1"} THEN NONE
                 ELSE IF at \in ExecPos /\ "cpu_error" \in DOMAIN res.upd
                      THEN res.upd.cpu_error
                      ELSE raised
    /\ stop_req' = IF at = "run_cpu_ret" /\ res.to = "return"
                   THEN FALSE
                   ELSE stop_req
    /\ after_stop' = IF at = "run_cpu_ret" /\ res.to = "return" THEN 0
                     ELSE IF at \in ExecPos /\ stop_req
                          THEN Min(after_stop + 1, MaxInstr)
                          ELSE after_stop
    /\ UNCHANGED <<confVars, closed>>

IceCmds == { <<"\n">>, <<"g", "\n">>, <<"G", "1", "\n">>, <<"c", "\n">>,
             <<"q", "\n">> }

tolower(c) == IF InSeq(UpperAF, c) THEN LowerAF[Index(UpperAF, c)]
              ELSE IF c = "G" THEN "g" ELSE c

Builds == {"BOTH", "EXCLUDE_I8080", "EXCLUDE_Z80"}

DefCpu == IF build = "EXCLUDE_Z80" THEN {I8080}
          ELSE IF build = "EXCLUDE_I8080" THEN {Z80} ELSE {Z80, I8080}

Init ==
    /\ build \in Builds
    /\ machine \in {"ice", "altair"}
    /\ R_flag = 0 /\ boot_switch = 0 /\ boot_switch_M = 0
    /\ cpu \in DefCpu
    /\ StaticData /\ StaticCtl
    /\ at = "main"
    /\ last_op = "static"

Main ==
    /\ at = "main"
    /\ \E t \in IF machine = "altairfp" THEN {Tape(MaxTape)} ELSE Tapes :
          Go(Res(init_cpu(t), IF machine = "ice" THEN "ice_entry" ELSE "mon"))
    /\ UNCHANGED ncmds

IceCmdLoop ==
    /\ at \in {"ice_entry", "ice_cmd_loop"}
    /\ at = "ice_cmd_loop" => ncmds < MaxIceCmds
    /\ \E cmd \in IceCmds :
          Go(ice_cmd_loop(at, <<tolower(Head(cmd))>> \o Tail(cmd)))
    /\ ncmds' = IF at = "ice_cmd_loop" THEN ncmds + 1 ELSE ncmds

DoStep ==
    /\ at \in {"do_step", "do_step_1", "do_step_2"}
    /\ Go(do_step(at))
    /\ UNCHANGED ncmds

DoGo ==
    /\ at \in {"do_go", "do_go_loop", "do_go_1", "do_go_2"}
    /\ Go(do_go(at, loc))
    /\ UNCHANGED ncmds

DoClock ==
    /\ at \in {"do_clock", "do_clock_1"}
    /\ Go(do_clock(at, loc))
    /\ UNCHANGED ncmds

HandleBreak ==
    /\ at \in {"handle_break", "handle_break_1"}
    /\ at = "handle_break_1" => soft[loc].sb_passcount < MaxPass
    /\ Go(handle_break(at, loc))
    /\ UNCHANGED ncmds

RunCpu ==
    /\ at \in RunPos
    /\ Go(IF machine \in {"altair", "altairfp"}
          THEN simctl_run_cpu(at)
          ELSE run_cpu(at))
    /\ UNCHANGED ncmds

StepCpu ==
    /\ at \in StepPos
    /\ Go(step_cpu(at))
    /\ UNCHANGED ncmds

CpuZ80 ==
    /\ at \in {"cpu_z80", "cpu_z80_while"}
    /\ \E r \in cpu_loop("cpu_z80", at) : Go(r)
    /\ UNCHANGED ncmds

Cpu8080 ==
    /\ at \in {"cpu_8080", "cpu_8080_while"}
    /\ \E r \in cpu_loop("cpu_8080", at) : Go(r)
    /\ UNCHANGED ncmds

Mon ==
    /\ at \in MonPos
    /\ Go(mon(at))
    /\ UNCHANGED ncmds

\* SIGALRM: the handler runs between two steps of the program; with the
\* default disposition the signal ends the process
Timeout ==
    /\ sig_timer = "armed"
    /\ at \notin {"exit", "killed"}
    /\ IF sig_handler = "timeout"
       THEN /\ Assign(Then(timeout, [sig_timer |-> "off"]))
            /\ at' = at
            /\ stop_req' = (stop_req \/ InRun)
       ELSE /\ Assign([sig_timer |-> "off"])
            /\ at' = "killed"
            /\ stop_req' = stop_req
    /\ last_op' = "timeout"
    /\ UNCHANGED <<confVars, stack, loc, retval, raised, closed, ncmds,
                   ex_calls, after_stop>>

Next ==
    \/ Main \/ IceCmdLoop \/ DoStep \/ DoGo \/ DoClock \/ HandleBreak
    \/ RunCpu \/ StepCpu \/ CpuZ80 \/ Cpu8080 \/ Mon \/ Timeout

Spec == Init /\ [][Next]_vars

(***************************************************************************)
(* Properties of the scheduler in the programs with one thread (Spec).     *)
(***************************************************************************)
\* the state in which run_cpu has just returned to its caller
RunCpuReturned == last_op = "run_cpu_ret" /\ at \notin RunPos

\* the state in which step_cpu has just returned to its caller
StepCpuReturned == last_op = "step_cpu_ret"

\* C1: a run is not ended by a model change: when run_cpu returns,
\* cpu_state is never MODEL_SWITCH (the scheduler has set it back to
\* CONTIN_RUN and invoked the executor of the selected model again).
C1_Original == RunCpuReturned => cpu_state # MODEL_SWITCH

C7_ErrorEndsRun ==
    /\ [](at \in ExecPos => cpu_error = NONE)
    /\ []((RunCpuReturned /\ raised # NONE)
            => (cpu_error = raised /\ cpu_state = STOPPED))
    /\ [][(cpu_error # NONE /\ cpu_error' = NONE)
            => at \in {"run_cpu_1", "step_cpu_1"}]_vars

C7_Witness ==
    /\ RunCpuReturned /\ raised = IOERROR
    /\ cpu_error = IOERROR /\ cpu_state = STOPPED

(***************************************************************************)
(* altairsim simctl.c: the callbacks of the front panel switches.  Each    *)
(* gives the assignments one call makes.                                   *)
(***************************************************************************)
run_clicked(state) ==
    IF power = 0 THEN NoUpd
    ELSE CASE state = "FP_SW_DOWN" ->
                IF cpu_state # CONTIN_RUN
                THEN [cpu_state |-> CONTIN_RUN, fp_led_wait |-> 0,
                      cpu_switch |-> 1]
                ELSE NoUpd
           [] state = "FP_SW_UP" ->
                IF cpu_state = CONTIN_RUN
                THEN [cpu_state |-> STOPPED, fp_led_wait |-> 1,
                      cpu_switch |-> 0]
                ELSE NoUpd
           [] OTHER -> NoUpd

step_clicked(state) ==
    IF power = 0 THEN NoUpd
    ELSE IF cpu_state = CONTIN_RUN THEN NoUpd
    ELSE CASE state = "FP_SW_UP" -> [cpu_switch |-> 2]
           [] OTHER -> NoUpd

\* reset_clicked with "cpu_state |= reset" for "cpu_state |= RESET"
reset_clicked_or(state, oob) ==
    IF power = 0 THEN NoUpd
    ELSE CASE state = "FP_SW_UP" ->
                [reset |-> 1, cpu_state |-> BitOr(cpu_state, 1), IFF |-> 0,
                 m1_step |-> 0]
           [] state = "FP_SW_CENTER" ->
                IF reset # 0
                THEN LET pc == IF reset = 2 /\ R_flag = 0
                               THEN boot_switch_M ELSE 0
                     IN  Then(reset_cpu,
                              [PC |-> pc, reset |-> 0,
                               cpu_state |-> BitClr(cpu_state, RESET),
                               fp_led_address |-> pc,
                               fp_led_data |-> fp_read(pc),
                               mem_wp |-> IF pc < NPages
                                          THEN IF p_attr(pc) \in
                                                    {"MEM_RO", "MEM_WPROT"}
                                               THEN 1 ELSE 0
                                          ELSE oob,
                               cpu_bus |-> {"WO", "M1", "MEMR"}])
                ELSE NoUpd
           [] state = "FP_SW_DOWN" ->
                [reset |-> 2, cpu_state |-> BitOr(cpu_state, 2),
                 m1_step |-> 0, IFF |-> 0]
           [] OTHER -> NoUpd

\* reset_clicked that stops the CPU when the switch is released
reset_clicked_stop(state, oob) ==
    IF power = 0 THEN NoUpd
    ELSE CASE state = "FP_SW_UP" ->
                [reset |-> 1, cpu_state |-> BitOr(cpu_state, RESET),
                 IFF |-> 0, m1_step |-> 0]
           [] state = "FP_SW_CENTER" ->
                IF reset # 0
                THEN LET pc == IF reset = 2 /\ R_flag = 0
                               THEN boot_switch_M ELSE 0
                     IN  Then(reset_cpu,
                              [PC |-> pc, reset |-> 0,
                               cpu_state |-> STOPPED,
                               fp_led_address |-> pc,
                               fp_led_data |-> fp_read(pc),
                               mem_wp |-> IF pc < NPages
                                          THEN IF p_attr(pc) \in
                                                    {"MEM_RO", "MEM_WPROT"}
                                               THEN 1 ELSE 0
                                          ELSE oob,
                               cpu_bus |-> {"WO", "M1", "MEMR"}])
                ELSE NoUpd
           [] state = "FP_SW_DOWN" ->
                [reset |-> 2, cpu_state |-> BitOr(cpu_state, RESET),
                 m1_step |-> 0, IFF |-> 0]
           [] OTHER -> NoUpd

\* oob: what the read p_tab[PC] yields as "page is protected" when PC is
\* past the end of p_tab
reset_clicked(state, oob) ==
    IF power = 0 THEN NoUpd
    ELSE CASE state = "FP_SW_UP" ->
                [reset |-> 1, cpu_state |-> BitOr(cpu_state, RESET),
                 IFF |-> 0, m1_step |-> 0]
           [] state = "FP_SW_CENTER" ->
                IF reset # 0
                THEN LET pc == IF reset = 2 /\ R_flag = 0
                               THEN boot_switch_M ELSE 0
                     IN  Then(reset_cpu,
                              [PC |-> pc, reset |-> 0,
                               cpu_state |-> BitClr(cpu_state, RESET),
                               fp_led_address |-> pc,
                               fp_led_data |-> fp_read(pc),
                               mem_wp |-> IF pc < NPages
                                          THEN IF p_attr(pc) \in
                                                    {"MEM_RO", "MEM_WPROT"}
                                               THEN 1 ELSE 0
                                          ELSE oob,
                               cpu_bus |-> {"WO", "M1", "MEMR"}])
                ELSE NoUpd
           [] state = "FP_SW_DOWN" ->
                [reset |-> 2, cpu_state |-> BitOr(cpu_state, RESET),
                 m1_step |-> 0, IFF |-> 0]
           [] OTHER -> NoUpd

power_clicked(state) ==
    CASE state = "FP_SW_DOWN" ->
            IF power # 0 THEN NoUpd
            ELSE [power |-> power + 1, cpu_bus |-> {"WO", "M1", "MEMR"},
                  fp_led_address |-> PC, fp_led_data |-> fp_read(PC),
                  fp_led_wait |-> 1]
      [] state = "FP_SW_UP" ->
            IF power = 0 THEN NoUpd
            ELSE [power |-> power - 1, cpu_switch |-> 0,
                  cpu_state |-> STOPPED, cpu_error |-> POWEROFF]
      [] OTHER -> NoUpd

quit_callback ==
    [power |-> power - 1, cpu_switch |-> 0, cpu_state |-> STOPPED,
     cpu_error |-> POWEROFF]

(***************************************************************************)
(* SpecFP: altairsim with front panel.  The CPU thread runs mon; the panel *)
(* thread calls a switch callback, or the quit callback when the window is *)
(* closed, between any two steps of the CPU thread.                        *)
(***************************************************************************)
SwStates == {"FP_SW_UP", "FP_SW_CENTER", "FP_SW_DOWN"}

BootAddrs == {65280}

InitFP ==
    /\ build = "BOTH"
    /\ machine = "altairfp"
    /\ R_flag \in {0, 1}
    /\ boot_switch \in BootAddrs /\ boot_switch_M \in BootAddrs
    /\ cpu \in DefCpu
    /\ StaticData /\ StaticCtl
    /\ at = "main"
    /\ last_op = "static"

\* a call from the panel thread; what it writes to cpu_state is recorded
\* as a stop request (STOPPED while the CPU thread is in run_cpu) or as a
\* new request to run (CONTIN_RUN)
Panel(upd, name) ==
    /\ at \notin {"main", "exit"}
    /\ ~ closed
    /\ Assign(upd)
    /\ last_op' = IF upd = NoUpd THEN last_op ELSE name
    /\ stop_req' = IF "cpu_state" \in DOMAIN upd
                   THEN IF upd.cpu_state = STOPPED THEN stop_req \/ InRun
                        ELSE IF upd.cpu_state = CONTIN_RUN THEN FALSE
                        ELSE stop_req
                   ELSE stop_req
    /\ after_stop' = IF "cpu_state" \in DOMAIN upd
                        /\ upd.cpu_state = CONTIN_RUN
                     THEN 0 ELSE after_stop
    /\ UNCHANGED <<confVars, at, stack, loc, retval, raised, ncmds, ex_calls>>

RunClicked ==
    \E state \in SwStates :
        Panel(run_clicked(state), "run_clicked") /\ UNCHANGED closed

StepClicked ==
    \E state \in SwStates :
        Panel(step_clicked(state), "step_clicked") /\ UNCHANGED closed

ResetClicked ==
    \E state \in SwStates, oob \in {0, 1} :
        Panel(reset_clicked(state, oob), "reset_clicked") /\ UNCHANGED closed

PowerClicked ==
    \E state \in SwStates :
        Panel(power_clicked(state), "power_clicked") /\ UNCHANGED closed

QuitCallback ==
    Panel(quit_callback, "quit_callback") /\ closed' = TRUE

NextFP ==
    \/ Main \/ Mon \/ RunCpu \/ StepCpu \/ CpuZ80 \/ Cpu8080
    \/ RunClicked \/ StepClicked \/ ResetClicked
    \/ PowerClicked \/ QuitCallback

SpecFP == InitFP /\ [][NextFP]_vars

(***************************************************************************)
(* Properties of the scheduler under the front panel (SpecFP).             *)
(***************************************************************************)
\* C3: a stop request made while the CPU thread is in run_cpu is never
\* lost: after it at most the instruction in flight is executed before
\* run_cpu returns.
C3_Original == after_stop <= 1

\* C4: once cpu_error is POWEROFF it stays POWEROFF: no later scheduler
\* entry or executor run overwrites it before the machine loop ends.
C4_Original == [][cpu_error = POWEROFF => cpu_error' = POWEROFF]_vars

C6_Original == [][(reset # 0 /\ reset' = 0) => cpu_state' = STOPPED]_vars

\* C6 as amended: when the reset pulse ends, the CPU has been reset (PC at
\* 0 or at the boot switch address, IFF = 0), cpu_state is what it was with
\* the RESET bit cleared, and cpu_switch is unchanged.
C6_ResetDone ==
    [][(reset # 0 /\ reset' = 0)
         => /\ cpu_state' = BitClr(cpu_state, RESET)
            /\ cpu_switch' = cpu_switch
            /\ PC' \in {0, boot_switch_M}
            /\ IFF' = 0 /\ int_int' = 0]_vars

C6_Witness ==
    /\ last_op = "reset_clicked" /\ reset = 0
    /\ cpu_state = CONTIN_RUN /\ cpu_switch = 1
(***************************************************************************)
(* Properties of switch_cpu and of the bus request functions (SpecRegs).   *)
(***************************************************************************)
\* everything switch_cpu has no business with: the registers other than F,
\* the interrupt state, the bus request state and the rest of the globals
C11_Frame ==
    <<A, B, C, D, E, H, L, IX, IY, WZ, A_, B_, C_, D_, E_, H_, L_, F_,
      I, R, R_, PC, SP, IFF, cpu_error,
      int_mode, int_nmi, int_int, int_data, int_protection,
      bus_request, bus_mode, dma_bus_master, T,
      cpu_switch, reset, power, memory, soft, cpu_bus>>

\* C11: a switch_cpu(new) with new # cpu sets cpu to new and cpu_state to
\* MODEL_SWITCH and forces N = 1, Y = 0, X = 0 in F only when new is I8080;
\* a switch_cpu(new) with new = cpu changes neither cpu_state nor F; in
\* both cases every other register, the interrupt state and the bus
\* request state keep their values.
C11_SwitchCpu ==
    [][last_op' = "switch_cpu" =>
          /\ UNCHANGED C11_Frame
          /\ IF cpu' # cpu
             THEN /\ cpu_state' = MODEL_SWITCH
                  /\ F' = IF cpu' = I8080
                          THEN BitOr(BitClr(F, Y_FLAG + X_FLAG), N_FLAG)
                          ELSE F
             ELSE /\ cpu_state' = cpu_state
                  /\ F' = F]_vars

\* a switch to the 8080 with registers, interrupt state and bus request
\* state that are not the initial ones
C11_Witness ==
    /\ last_op = "switch_cpu" /\ cpu = I8080 /\ cpu_state = MODEL_SWITCH
    /\ BitAnd(F, Y_FLAG + X_FLAG + N_FLAG) = N_FLAG
    /\ A = 255 /\ bus_request = 1 /\ int_int = 1

\* C12: start_bus_request(mode, cb) leaves bus_request = 1, bus_mode = mode
\* and dma_bus_master = cb; end_bus_request leaves bus_request = 0,
\* bus_mode = BUS_DMA_NONE and no bus master, whatever went before, so a
\* second end_bus_request changes nothing.
C12_BusRequest ==
    /\ [](last_op = "start_bus_request" =>
             /\ bus_request = 1
             /\ bus_mode = loc[1]
             /\ dma_bus_master = loc[2])
    /\ [](last_op = "end_bus_request" =>
             /\ bus_request = 0
             /\ bus_mode = "BUS_DMA_NONE"
             /\ dma_bus_master = "NULL")
    /\ [][(last_op = "end_bus_request" /\ last_op' = "end_bus_request") =>
              UNCHANGED dataVars]_vars

\* an end_bus_request that followed a start_bus_request
C12_Witness ==
    /\ last_op = "end_bus_request" /\ loc = <<"BUS_DMA_BYTE", "dma_read">>
    /\ bus_request = 0 /\ dma_bus_master = "NULL"
(***************************************************************************)
(* The executors in detail (simz80.c, sim8080.c; described by sections 4.5 *)
(* to 4.7 of the specification text).  One pass of the executor's loop is  *)
(* one decoder step: the bus request gate, the interrupt gate, then the    *)
(* fetch and the execution of one instruction.                             *)
(***************************************************************************)
INTERROR == 10
OPTRAP1 == 6

\* a bus master ends its bus request at the latest when the CPU clock has
\* reached MaxBusT
MaxBusT == 6

\* opcodes
OP_NOP == 0
OP_HALT == 118
OP_RET == 201
OP_DI == 243
OP_EI == 251
OP_RST38 == 255
OP_ED == 237
OP_IM1 == 86
OP_IM2 == 94
OP_LDRA == 79
OP_JP == 195

NMI_ADDR == 102
RST38_ADDR == 56

Word(w) == w % 65536

\* memwrt(--SP, PC >> 8); memwrt(--SP, PC)
push_pc ==
    [memory |-> putmem(putmem(memory, Word(SP - 1), PC \div 256),
                       Word(SP - 2), PC % 256),
     SP |-> Word(SP - 2)]

\* the positions of the executor m
XP(m) ==
    IF m = "cpu_z80"
    THEN [ack |-> "z80_busack", nmi |-> "z80_nmi", int |-> "z80_int",
          fetch |-> "z80_fetch"]
    ELSE [ack |-> "i8080_busack", nmi |-> "i8080_int", int |-> "i8080_int",
          fetch |-> "i8080_fetch"]

XAckPos == {"z80_busack", "i8080_busack"}
XIntPos == {"z80_int", "i8080_int"}
XFetchPos == {"z80_fetch", "i8080_fetch"}
XPos == XAckPos \cup XIntPos \cup XFetchPos \cup {"z80_nmi"}

\* T-states a bus master reports for one call
DmaStates == 3

\* one call of the bus master callback, when one is registered: it
\* transfers, and it may end the bus request
dma_master ==
    IF dma_bus_master = "NULL" THEN {NoUpd}
    ELSE (IF T + DmaStates <= MaxBusT THEN {[T |-> T + DmaStates]} ELSE {})
         \cup {Then([T |-> T + DmaStates], end_bus_request)}

\* a slip: R counts in eight bits
inc_R_byte(m, op) ==
    IF m = "cpu_z80"
    THEN [R |-> (R + IF op = OP_ED THEN 2 ELSE 1) % 256]
    ELSE NoUpd

\* R counts the M1 fetch and an accepted prefix byte, in seven bits (Z80)
inc_R(m, op) ==
    IF m = "cpu_z80"
    THEN [R |-> (R + IF op = OP_ED THEN 2 ELSE 1) % 128]
    ELSE NoUpd

\* the instruction with opcode op, PC already past the opcode; pc is that PC
exec_op(m, op, pc) ==
    CASE op = OP_NOP -> [T |-> T + 4]
      [] op = OP_EI -> Then(op_ei, [T |-> T + 4])
      [] op = OP_DI -> [IFF |-> 0, T |-> T + 4]
      [] op = OP_RET ->
            [PC |-> getmem(SP) + 256 * getmem(Word(SP + 1)),
             SP |-> Word(SP + 2), T |-> T + 10]
      [] op = OP_RST38 ->
            [memory |-> putmem(putmem(memory, Word(SP - 1), pc \div 256),
                               Word(SP - 2), pc % 256),
             SP |-> Word(SP - 2), PC |-> RST38_ADDR, T |-> T + 11]
      [] op = OP_HALT ->
            Then([cpu_bus |-> cpu_bus \cup {"HLTA"},
                  T |-> T + IF m = "cpu_z80" THEN 4 ELSE 7],
                 IF IFF = 0
                 THEN [cpu_error |-> OPHALT, cpu_state |-> STOPPED]
                 ELSE NoUpd)
      [] op = OP_ED /\ m = "cpu_z80" /\ getmem(pc) \in {OP_IM1, OP_IM2} ->
            Then(op_im(IF getmem(pc) = OP_IM1 THEN 1 ELSE 2),
                 [PC |-> Word(pc + 1), T |-> T + 8])
      [] op = OP_ED /\ m = "cpu_z80" /\ getmem(pc) = OP_LDRA ->
            Then(op_ldra, [PC |-> Word(pc + 1), T |-> T + 9])
      [] op = OP_JP ->
            [PC |-> getmem(pc) + 256 * getmem(Word(pc + 1)), T |-> T + 10]
      [] OTHER -> [cpu_error |-> OPTRAP1, cpu_state |-> STOPPED]
\* where the loop of the executor goes on after the bus request gate
after_bus(m, upd) ==
    IF Val(upd, "bus_request", bus_request) # 0 THEN XP(m).ack ELSE XP(m).nmi

\* an acknowledge that leaves the request pending
int_ack_keep(m) ==
    LET ack == [IFF |-> 0, cpu_bus |-> cpu_bus \cup {"INTA"}]
        err == [cpu_error |-> INTERROR, cpu_state |-> STOPPED]
        vec == Word(I * 256 + BitClr(int_data % 256, 1))
    IN  CASE m = "cpu_8080" \/ int_mode = 0 ->
                IF int_data = -1 THEN Then(ack, err)
                ELSE Then(ack, exec_op(m, int_data, PC))
          [] int_mode = 1 ->
                Then(Then(ack, push_pc), [PC |-> RST38_ADDR, T |-> T + 13])
          [] OTHER ->
                IF int_data = -1 THEN Then(ack, err)
                ELSE Then(Then(ack, push_pc),
                          [PC |-> getmem(vec) + 256 * getmem(Word(vec + 1)),
                           T |-> T + 19])

\* the maskable interrupt is acknowledged: IFF and the request are cleared,
\* INTA goes on the bus status, and the response follows the model and the
\* interrupt mode
int_ack(m) ==
    LET ack == [IFF |-> 0, int_int |-> 0, cpu_bus |-> cpu_bus \cup {"INTA"}]
        err == [cpu_error |-> INTERROR, cpu_state |-> STOPPED]
        vec == Word(I * 256 + BitClr(int_data % 256, 1))
    IN  CASE m = "cpu_8080" \/ int_mode = 0 ->
                IF int_data = -1 THEN Then(ack, err)
                ELSE Then(ack, exec_op(m, int_data, PC))
          [] int_mode = 1 ->
                Then(Then(ack, push_pc), [PC |-> RST38_ADDR, T |-> T + 13])
          [] OTHER ->
                IF int_data = -1 THEN Then(ack, err)
                ELSE Then(Then(ack, push_pc),
                          [PC |-> getmem(vec) + 256 * getmem(Word(vec + 1)),
                           T |-> T + 19])

\* NMI entry that clears both interrupt enable latches
nmi_entry_clr ==
    Then(push_pc, [int_nmi |-> 0, IFF |-> 0, PC |-> NMI_ADDR, T |-> T + 11])

\* NMI entry: push PC, IFF2 := IFF1, IFF1 := 0, PC := 0066h, 11 T-states
nmi_entry ==
    Then(push_pc,
         [int_nmi |-> 0, IFF |-> 2 * (IFF % 2), PC |-> NMI_ADDR,
          T |-> T + 11])

\* one pass of do { ... } while (cpu_state == CONTIN_RUN) of the executor m
cpu_step(m, pos) ==
    CASE pos = m ->
            {Res(NoUpd, IF bus_request # 0 THEN XP(m).ack ELSE XP(m).nmi)}
      [] pos \in XAckPos ->
            {Res(u, after_bus(m, u)) : u \in dma_master}
      [] pos = "z80_nmi" ->
            {IF int_nmi # 0
             THEN Res(nmi_entry, XP(m).int)
             ELSE Res(NoUpd, XP(m).int)}
      [] pos \in XIntPos ->
            {IF int_int # 0 /\ IFF % 2 = 1 /\ int_protection = 0
             THEN Res(int_ack(m), While(m))
             ELSE Res(NoUpd, XP(m).fetch)}
      [] pos \in XFetchPos ->
            LET op == getmem(PC)
                pc == Word(PC + 1)
            IN  {Res(Then(Then(Then([PC |-> pc, int_protection |-> 0],
                                    inc_R(m, op)),
                               [cpu_bus |-> {"WO", "M1", "MEMR"}]),
                          exec_op(m, op, pc)),
                     While(m))}
      [] OTHER ->
            {IF cpu_state = CONTIN_RUN THEN Res(NoUpd, m) ELSE Return(NoUpd, 0)}
(***************************************************************************)
(* altairsim simctl.c: the callback of the INT/BOOT switch.                *)
(***************************************************************************)
\* int_clicked that puts RST 7 on the data bus
int_clicked_data(state) ==
    IF power = 0 THEN NoUpd
    ELSE CASE state = "FP_SW_UP" -> [int_int |-> 1, int_data |-> 255]
           [] state = "FP_SW_DOWN" ->
                [fp_led_address |-> boot_switch,
                 fp_led_data |-> fp_read(boot_switch),
                 PC |-> boot_switch]
           [] OTHER -> NoUpd

int_clicked(state) ==
    IF power = 0 THEN NoUpd
    ELSE CASE state = "FP_SW_UP" -> [int_int |-> 1]
           [] state = "FP_SW_DOWN" ->
                [fp_led_address |-> boot_switch,
                 fp_led_data |-> fp_read(boot_switch),
                 PC |-> boot_switch]
           [] OTHER -> NoUpd

(***************************************************************************)
(* SpecExec: altairsim with front panel, single-stepped.  The CPU thread   *)
(* runs mon, which calls step_cpu when the STEP switch was clicked, and    *)
(* the executor in detail.  The operator and the devices act while the CPU *)
(* thread sleeps at the end of a pass of mon's loop.                       *)
(***************************************************************************)
MaxSteps == 4

\* the programs in memory: EI; RET / IM 1; EI; NOP / IM 2; EI; NOP /
\* EI; HALT / HALT
Programs ==
    { (0 :> OP_EI) @@ (1 :> OP_RET),
      (0 :> OP_ED) @@ (1 :> OP_IM1) @@ (2 :> OP_EI),
      (0 :> OP_ED) @@ (1 :> OP_IM2) @@ (2 :> OP_EI),
      (0 :> OP_EI) @@ (1 :> OP_HALT),
      (0 :> OP_HALT) }
InitExec ==
    /\ build = "BOTH"
    /\ machine = "altairfp"
    /\ R_flag = 0
    /\ boot_switch \in BootAddrs /\ boot_switch_M \in BootAddrs
    /\ cpu \in DefCpu
    /\ StaticData /\ StaticCtl
    /\ at = "main"
    /\ last_op = "static"

\* main: init_cpu, then the program is loaded and mon is called
XMain ==
    /\ at = "main"
    /\ \E prog \in Programs :
          Go(Res(Then(init_cpu(Tape(MaxTape)), [memory |-> prog]), "mon"))
    /\ UNCHANGED ncmds

XCpuZ80 ==
    /\ at \in {"cpu_z80", "cpu_z80_while"} \cup (XPos \ {"i8080_busack",
                                                         "i8080_int",
                                                         "i8080_fetch"})
    /\ \E r \in cpu_step("cpu_z80", at) : Go(r)
    /\ UNCHANGED ncmds

XCpu8080 ==
    /\ at \in {"cpu_8080", "cpu_8080_while", "i8080_busack", "i8080_int",
               "i8080_fetch"}
    /\ \E r \in cpu_step("cpu_8080", at) : Go(r)
    /\ UNCHANGED ncmds

\* the operator or a device acts while the CPU thread sleeps in mon's loop
Event(upd, name) ==
    /\ at = "mon_while"
    /\ cpu_error = NONE
    /\ upd # NoUpd
    /\ Assign(upd)
    /\ last_op' = name
    /\ UNCHANGED <<confVars, at, stack, loc, retval, raised, closed,
                   ex_calls, stop_req, after_stop>>

XPowerOn ==
    Event(power_clicked("FP_SW_DOWN"), "power_clicked") /\ UNCHANGED ncmds

XStepClicked ==
    /\ ncmds < MaxSteps /\ cpu_switch = 0
    /\ Event(step_clicked("FP_SW_UP"), "step_clicked")
    /\ ncmds' = ncmds + 1

XIntClicked ==
    /\ int_int = 0
    /\ Event(int_clicked("FP_SW_UP"), "int_clicked") /\ UNCHANGED ncmds

XRequestInterrupt ==
    /\ int_int = 0
    /\ Event(request_interrupt(OP_RST38), "request_interrupt")
    /\ UNCHANGED ncmds

XRequestNmi ==
    /\ int_nmi = 0
    /\ Event(request_nmi, "request_nmi") /\ UNCHANGED ncmds

XStartBusRequest ==
    /\ bus_request = 0
    /\ Event(start_bus_request("BUS_DMA_BYTE", "dma_read"),
             "start_bus_request")
    /\ UNCHANGED ncmds

NextExec ==
    \/ XMain \/ Mon \/ StepCpu \/ XCpuZ80 \/ XCpu8080
    \/ XPowerOn \/ XStepClicked \/ XIntClicked
    \/ XRequestInterrupt \/ XRequestNmi \/ XStartBusRequest

SpecExec == InitExec /\ [][NextExec]_vars
\* the CPU thread takes its steps
SpecExecFair == SpecExec /\ WF_vars(Mon \/ StepCpu \/ XCpuZ80 \/ XCpu8080)

(***************************************************************************)
(* Properties of the decoder step (SpecExec, SpecExecFair).                *)
(***************************************************************************)
\* C13: a step that begins with bus_request set enters the bus acknowledge
\* loop; every pass of the loop calls the bus master and adds the T-states
\* it returns to T, and touches neither PC nor the interrupt state; the
\* loop is left exactly when bus_request is clear, so no interrupt is
\* acknowledged and no opcode fetched while it is set; and the loop is
\* left and the step completed eventually.
C13_BusAck ==
    /\ [][(at \in ExecPos /\ bus_request # 0) => at' \in XAckPos]_vars
    /\ [][(at \in XAckPos) =>
             (/\ T' = T + DmaStates
              /\ UNCHANGED <<PC, SP, IFF, int_int, int_nmi, int_data, memory>>
              /\ IF bus_request' # 0 THEN at' = at
                 ELSE at' \in XIntPos \cup {"z80_nmi"})]_vars
    /\ [](at \in XIntPos \cup XFetchPos \cup {"z80_nmi"} => bus_request = 0)
    /\ (at \in XAckPos) ~> (at \in ExecWhilePos /\ bus_request = 0)

\* the first step of a program called the bus master twice and then
\* executed its instruction
C13_Witness ==
    /\ last_op \in XFetchPos /\ ncmds = 1 /\ bus_request = 0
    /\ T = 2 * DmaStates + 4
(***************************************************************************)
(* SpecInt: altairsim with front panel, the CPU stopped.  The CPU thread   *)
(* idles in mon's loop; the panel thread calls the callbacks of the power, *)
(* reset and INT/BOOT switches and a device requests interrupts, between   *)
(* any two steps of the CPU thread.                                        *)
(***************************************************************************)
IntClicked ==
    \E state \in SwStates :
        Panel(int_clicked(state), "int_clicked") /\ UNCHANGED closed

RequestInterrupt ==
    \E data \in {OP_RST38, 0} :
        Panel(request_interrupt(data), "request_interrupt")
        /\ UNCHANGED closed

NextInt ==
    \/ Main \/ Mon \/ ResetClicked \/ PowerClicked \/ IntClicked
    \/ RequestInterrupt

SpecInt == InitFP /\ [][NextInt]_vars

\* C14 as stated: whenever an interrupt is pending, int_data is a byte.
C14_Original == int_int # 0 => int_data \in 0 .. 255

\* C14: int_data is -1 or a byte; a device request leaves a byte in
\* int_data together with the pending interrupt; the INT switch sets the
\* pending interrupt and leaves int_data as it is.
C14_IntData ==
    /\ [](int_int \in {0, 1} /\ int_data \in -1 .. 255)
    /\ [](last_op = "request_interrupt" =>
             (int_int = 1 /\ int_data \in 0 .. 255))
    /\ [][(last_op' = "int_clicked") => int_data' = int_data]_vars

\* the INT switch was raised while no device had data on the bus (the
\* state init_cpu and reset_cpu leave): an interrupt is pending without data
C14_Witness ==
    /\ last_op = "int_clicked" /\ int_int = 1 /\ int_data = -1
    /\ power = 1 /\ reset = 0 /\ cpu_bus = {"WO", "M1", "MEMR"} /\ PC = 0
\* a step in which the executor acknowledges a maskable interrupt
IntAckStep == at \in XIntPos /\ "INTA" \in cpu_bus' /\ at' \in ExecWhilePos

\* the interrupt response reads the data bus: always on the 8080, in
\* interrupt modes 0 and 2 on the Z80
NeedsIntData == cpu = I8080 \/ int_mode \in {0, 2}

FetchStep(op) == at \in XFetchPos /\ getmem(PC) = op

InitBreak ==
    /\ build = "BOTH"
    /\ machine = "ice"
    /\ R_flag = 0 /\ boot_switch = 0 /\ boot_switch_M = 0
    /\ cpu \in DefCpu
    /\ StaticData /\ StaticCtl
    /\ at = "main"
    /\ last_op = "static"

\* main: init_cpu, then the program is loaded and the ICE is entered
BMain ==
    /\ at = "main"
    /\ \E prog \in Programs :
          Go(Res(Then(init_cpu(Tape(MaxTape)), [memory |-> prog]),
                 "ice_entry"))
    /\ UNCHANGED ncmds

\* the step command (an empty line), at most MaxSteps times
BIceCmdLoop ==
    /\ at \in {"ice_entry", "ice_cmd_loop"}
    /\ at = "ice_cmd_loop" => ncmds < MaxSteps
    /\ Go(ice_cmd_loop(at, <<"\n">>))
    /\ ncmds' = IF at = "ice_cmd_loop" THEN ncmds + 1 ELSE ncmds

\* a device requests an interrupt while the ICE waits for a command
BRequestInterrupt ==
    /\ at = "ice_cmd_loop" /\ int_int = 0
    /\ Assign(request_interrupt(OP_RST38))
    /\ last_op' = "request_interrupt"
    /\ UNCHANGED <<confVars, at, stack, loc, retval, raised, closed, ncmds,
                   ex_calls, stop_req, after_stop>>

NextBreak ==
    \/ BMain \/ BIceCmdLoop \/ DoStep \/ HandleBreak \/ StepCpu
    \/ XCpuZ80 \/ XCpu8080 \/ BRequestInterrupt

SpecBreak == InitBreak /\ [][NextBreak]_vars
(***************************************************************************)
(* Properties of HALT (SpecBreak).                                         *)
(***************************************************************************)
\* the ICE is about to look at the error of the step it ran
OphaltReported ==
    cpu_error = OPHALT /\ at \in {"do_step_1", "handle_break"}

\* C18 as stated: in the state in which OPHALT is reported, PC is the
\* address of the HALT opcode.
C18_Original == OphaltReported => getmem(PC) = OP_HALT

\* C18: the fetch of HALT advances PC like every fetch and HALT leaves it
\* there: HALT sets HLTA and, with interrupts disabled, raises OPHALT and
\* stops the CPU; in the state in which OPHALT is reported the HALT opcode
\* is at PC - 1; and handle_break steps PC back to a breakpoint's address
\* before it executes the opcode the breakpoint replaced.
C18_HaltPC ==
    /\ [][FetchStep(OP_HALT) =>
             /\ PC' = Word(PC + 1)
             /\ "HLTA" \in cpu_bus'
             /\ IF IFF = 0
                THEN cpu_error' = OPHALT /\ cpu_state' = STOPPED
                ELSE cpu_error' = cpu_error /\ cpu_state' = cpu_state
      ]_vars
    /\ [](OphaltReported => getmem(Word(PC - 1)) = OP_HALT)
    /\ []((at = "step_cpu" /\ Head(stack).pos = "handle_break_1") =>
             /\ PC = soft[Head(stack).loc].sb_addr
             /\ getmem(PC) = soft[Head(stack).loc].sb_oldopc)

\* HALT at address 0 with interrupts disabled: OPHALT is reported with PC
\* one past the HALT opcode
C18_Witness ==
    /\ OphaltReported /\ at = "do_step_1" /\ PC = 1 /\ getmem(0) = OP_HALT
    /\ IFF = 0 /\ cpu_state = STOPPED /\ "HLTA" \in cpu_bus
(***************************************************************************)
(* The memory bus.  memory.h is not part of the sources at hand: memrdr    *)
(* and memwrt are taken from the description of the bus (a write is        *)
(* checked against the attribute of the page, a write to a read-only page  *)
(* is dropped, a write to a protected page is dropped and raises mem_wp).  *)
(***************************************************************************)
memrdr(addr) == getmem(addr)

\* a slip: the write is not checked against the page attribute
memwrt_any(addr, data) == [memory |-> putmem(memory, addr, data)]

memwrt(addr, data) ==
    IF p_attr(addr \div 256) = "MEM_RW"
    THEN [memory |-> putmem(memory, addr, data)]
    ELSE IF p_attr(addr \div 256) = "MEM_WPROT" THEN [mem_wp |-> 1]
         ELSE NoUpd

\* a slip: UNPROTECT makes every page that is not RW writable, ROM included
protect_clicked_rom(state) ==
    IF power = 0 THEN NoUpd
    ELSE IF cpu_state = CONTIN_RUN THEN NoUpd
    ELSE CASE state = "FP_SW_UP" ->
                 IF p_attr(PC \div 256) = "MEM_RW"
                 THEN [p_tab |-> ((PC \div 256) :> "MEM_WPROT") @@ p_tab,
                       mem_wp |-> 1]
                 ELSE NoUpd
           [] state = "FP_SW_DOWN" ->
                 IF p_attr(PC \div 256) # "MEM_RW"
                 THEN [p_tab |-> ((PC \div 256) :> "MEM_RW") @@ p_tab,
                       mem_wp |-> 0]
                 ELSE NoUpd
           [] OTHER -> NoUpd

\* simctl.c protect_clicked: PROTECT (up) and UNPROTECT (down) of the page
\* of PC
protect_clicked(state) ==
    IF power = 0 THEN NoUpd
    ELSE IF cpu_state = CONTIN_RUN THEN NoUpd
    ELSE CASE state = "FP_SW_UP" ->
                 IF p_attr(PC \div 256) = "MEM_RW"
                 THEN [p_tab |-> ((PC \div 256) :> "MEM_WPROT") @@ p_tab,
                       mem_wp |-> 1]
                 ELSE NoUpd
           [] state = "FP_SW_DOWN" ->
                 IF p_attr(PC \div 256) = "MEM_WPROT"
                 THEN [p_tab |-> ((PC \div 256) :> "MEM_RW") @@ p_tab,
                       mem_wp |-> 0]
                 ELSE NoUpd
           [] OTHER -> NoUpd

(***************************************************************************)
(* SpecMem: the memory bus under its clients.  The configuration makes     *)
(* the top page ROM or leaves it RAM, the operator protects and            *)
(* unprotects the page of PC, and reads and writes arrive in any order.    *)
(***************************************************************************)
MaxMemOps == 3      \* writes issued

MemAddrs == {0, 255, 256, 65280, 65535}

MemBytes == {0, 1, 255}

\* the rom statements of the configuration: none, or the top page
RomPages == {{}, {255}}

InitMem ==
    /\ build = "BOTH"
    /\ machine = "altairfp"
    /\ R_flag = 0
    /\ boot_switch \in BootAddrs /\ boot_switch_M \in BootAddrs
    /\ cpu \in DefCpu
    /\ StaticData /\ StaticCtl
    /\ at = "main"
    /\ last_op = "static"

\* an access to the bus, or a switch of the panel: the arguments are kept
\* in loc, the value read in retval
BusOp(upd, name, arg, ret) ==
    /\ at = "bus"
    /\ Assign(upd)
    /\ last_op' = name
    /\ loc' = arg
    /\ retval' = ret
    /\ UNCHANGED <<confVars, at, stack, raised, closed, ex_calls, stop_req,
                   after_stop>>

\* main: init_cpu, and init_memory sets the page table from the
\* configuration
MMain ==
    /\ at = "main"
    /\ \E rom \in RomPages :
          Go(Res(Then(init_cpu(Tape(MaxTape)),
                      [p_tab |-> [p \in rom |-> "MEM_RO"]]), "bus"))
    /\ UNCHANGED ncmds

MPowerOn ==
    /\ power = 0
    /\ BusOp(power_clicked("FP_SW_DOWN"), "power_clicked", 0, retval)
    /\ UNCHANGED ncmds

MProtectClicked ==
    /\ \E state \in {"FP_SW_UP", "FP_SW_DOWN"} :
          /\ protect_clicked(state) # NoUpd
          /\ BusOp(protect_clicked(state), "protect_clicked", state, retval)
    /\ UNCHANGED ncmds

MMemWrt ==
    /\ ncmds < MaxMemOps
    /\ \E a \in MemAddrs, v \in MemBytes :
          BusOp(memwrt(a, v), "memwrt", <<a, v>>, retval)
    /\ ncmds' = ncmds + 1

MMemRdr ==
    /\ \E a \in MemAddrs : BusOp(NoUpd, "memrdr", <<a>>, memrdr(a))
    /\ UNCHANGED ncmds

NextMem == MMain \/ MPowerOn \/ MProtectClicked \/ MMemWrt \/ MMemRdr

SpecMem == InitMem /\ [][NextMem]_vars

\* C19: a write of v to an address a in a page with attribute MEM_RW is
\* followed by a read of a that yields v; a write to an address in a page
\* with attribute MEM_RO or MEM_WPROT leaves what a read of a yields as it
\* was; and a read yields the byte in memory and changes neither memory
\* nor the page table.
C19_RoundTrip ==
    /\ [][\A a \in MemAddrs, v \in MemBytes :
            (last_op' = "memwrt" /\ loc' = <<a, v>>) =>
                IF p_attr(a \div 256) = "MEM_RW"
                THEN memrdr(a)' = v
                ELSE memrdr(a)' = memrdr(a)]_vars
    /\ [][(last_op' = "memrdr") =>
            /\ memory' = memory /\ p_tab' = p_tab
            /\ retval' = memrdr(loc'[1])]_vars

\* a write to the protected page 0 has been dropped: the byte written there
\* while the page was RW is still read
C19_Witness ==
    /\ last_op = "memwrt" /\ loc = <<0, 1>>
    /\ p_attr(0) = "MEM_WPROT" /\ mem_wp = 1
    /\ memrdr(0) = 255
(***************************************************************************)
(* simglb.c: the table of the sign, zero and parity flags of a byte.  C    *)
(* indexes it from 0: szp_flags[r] of the code is szp_flags[r + 1] here.   *)
(***************************************************************************)
\* a slip: the table of the sign and zero flags only, without parity
szp_flags_noparity ==
    [r \in 1 .. 256 |-> IF r = 1 THEN Z_FLAG
                        ELSE IF r > 128 THEN S_FLAG ELSE 0]

szp_flags ==
    LET o == 0
        S == S_FLAG
        Z == Z_FLAG
        P == P_FLAG
    IN  <<
         Z + P, o    , o    , P    , o    , P    , P    , o,
         o    , P    , P    , o    , P    , o    , o    , P,
         o    , P    , P    , o    , P    , o    , o    , P,
         P    , o    , o    , P    , o    , P    , P    , o,
         o    , P    , P    , o    , P    , o    , o    , P,
         P    , o    , o    , P    , o    , P    , P    , o,
         P    , o    , o    , P    , o    , P    , P    , o,
         o    , P    , P    , o    , P    , o    , o    , P,
         o    , P    , P    , o    , P    , o    , o    , P,
         P    , o    , o    , P    , o    , P    , P    , o,
         P    , o    , o    , P    , o    , P    , P    , o,
         o    , P    , P    , o    , P    , o    , o    , P,
         P    , o    , o    , P    , o    , P    , P    , o,
         o    , P    , P    , o    , P    , o    , o    , P,
         o    , P    , P    , o    , P    , o    , o    , P,
         P    , o    , o    , P    , o    , P    , P    , o,
         S    , S + P, S + P, S    , S + P, S    , S    , S + P,
         S + P, S    , S    , S + P, S    , S + P, S + P, S,
         S + P, S    , S    , S + P, S    , S + P, S + P, S,
         S    , S + P, S + P, S    , S + P, S    , S    , S + P,
         S + P, S    , S    , S + P, S    , S + P, S + P, S,
         S    , S + P, S + P, S    , S + P, S    , S    , S + P,
         S    , S + P, S + P, S    , S + P, S    , S    , S + P,
         S + P, S    , S    , S + P, S    , S + P, S + P, S,
         S + P, S    , S    , S + P, S    , S + P, S + P, S,
         S    , S + P, S + P, S    , S + P, S    , S    , S + P,
         S    , S + P, S + P, S    , S + P, S    , S    , S + P,
         S + P, S    , S    , S + P, S    , S + P, S + P, S,
         S    , S + P, S + P, S    , S + P, S    , S    , S + P,
         S + P, S    , S    , S + P, S    , S + P, S + P, S,
         S + P, S    , S    , S + P, S    , S + P, S + P, S,
         S    , S + P, S + P, S    , S + P, S    , S    , S + P
        >>

(***************************************************************************)
(* SpecSzp: the flags of an 8-bit result.  init_cpu leaves any byte in A   *)
(* (rand() % 256); a logical instruction then sets F = szp_flags[A].       *)
(***************************************************************************)
Bytes == 0 .. 255

InitSzp ==
    /\ build = "BOTH"
    /\ machine = "altairfp"
    /\ R_flag = 0
    /\ boot_switch \in BootAddrs /\ boot_switch_M \in BootAddrs
    /\ cpu \in DefCpu
    /\ StaticData /\ StaticCtl
    /\ at = "main"
    /\ last_op = "static"

SzMain ==
    /\ at = "main"
    /\ \E a \in Bytes :
          Go(Res(Then(init_cpu(Tape(MaxTape)), [A |-> a]), "alu"))
    /\ UNCHANGED ncmds

SzFlags ==
    /\ at = "alu"
    /\ Go(Res([F |-> szp_flags[A + 1]], "alu_1"))
    /\ UNCHANGED ncmds

NextSzp == SzMain \/ SzFlags

SpecSzp == InitSzp /\ [][NextSzp]_vars

\* the number of 1 bits of a byte
popcount(r) == Bit(r, 0) + Bit(r, 1) + Bit(r, 2) + Bit(r, 3)
               + Bit(r, 4) + Bit(r, 5) + Bit(r, 6) + Bit(r, 7)

\* C20: for every byte r, szp_flags[r] has Z set iff r = 0, S set iff bit 7
\* of r is set, P set iff r has an even number of 1 bits, and no other
\* bit set; the table has 256 entries.
C20_SzpFlags ==
    /\ Len(szp_flags) = 256
    /\ (at = "alu_1") =>
          /\ (BitAnd(F, Z_FLAG) # 0) <=> (A = 0)
          /\ (BitAnd(F, S_FLAG) # 0) <=> (Bit(A, 7) = 1)
          /\ (BitAnd(F, P_FLAG) # 0) <=> (popcount(A) % 2 = 0)
          /\ BitClr(F, S_FLAG + Z_FLAG + P_FLAG) = 0

\* the flags of 0x81: negative, two 1 bits
C20_Witness == at = "alu_1" /\ A = 129 /\ F = S_FLAG + P_FLAG
(***************************************************************************)
(* simglb.c: the table of the sign, zero, Y and X flags of a byte (builds  *)
(* with UNDOC_FLAGS).  szyx_flags[b] of the code is szyx_flags[b + 1].     *)
(***************************************************************************)
\* a slip: the table without the undocumented flags
szyx_flags_sz ==
    [r \in 1 .. 256 |-> IF r = 1 THEN Z_FLAG
                        ELSE IF r > 128 THEN S_FLAG ELSE 0]

szyx_flags ==
    LET o == 0
        S == S_FLAG
        Z == Z_FLAG
        Y == Y_FLAG
        X == X_FLAG
    IN  <<
         Z        , o        , o        , o        , o        , o        , o        , o,
         X        , X        , X        , X        , X        , X        , X        , X,
         o        , o        , o        , o        , o        , o        , o        , o,
         X        , X        , X        , X        , X        , X        , X        , X,
         Y        , Y        , Y        , Y        , Y        , Y        , Y        , Y,
         Y + X    , Y + X    , Y + X    , Y + X    , Y + X    , Y + X    , Y + X    , Y + X,
         Y        , Y        , Y        , Y        , Y        , Y        , Y        , Y,
         Y + X    , Y + X    , Y + X    , Y + X    , Y + X    , Y + X    , Y + X    , Y + X,
         o        , o        , o        , o        , o        , o        , o        , o,
         X        , X        , X        , X        , X        , X        , X        , X,
         o        , o        , o        , o        , o        , o        , o        , o,
         X        , X        , X        , X        , X        , X        , X        , X,
         Y        , Y        , Y        , Y        , Y        , Y        , Y        , Y,
         Y + X    , Y + X    , Y + X    , Y + X    , Y + X    , Y + X    , Y + X    , Y + X,
         Y        , Y        , Y        , Y        , Y        , Y        , Y        , Y,
         Y + X    , Y + X    , Y + X    , Y + X    , Y + X    , Y + X    , Y + X    , Y + X,
         S        , S        , S        , S        , S        , S        , S        , S,
         S + X    , S + X    , S + X    , S + X    , S + X    , S + X    , S + X    , S + X,
         S        , S        , S        , S        , S        , S        , S        , S,
         S + X    , S + X    , S + X    , S + X    , S + X    , S + X    , S + X    , S + X,
         S + Y    , S + Y    , S + Y    , S + Y    , S + Y    , S + Y    , S + Y    , S + Y,
         S + Y + X, S + Y + X, S + Y + X, S + Y + X, S + Y + X, S + Y + X, S + Y + X, S + Y + X,
         S + Y    , S + Y    , S + Y    , S + Y    , S + Y    , S + Y    , S + Y    , S + Y,
         S + Y + X, S + Y + X, S + Y + X, S + Y + X, S + Y + X, S + Y + X, S + Y + X, S + Y + X,
         S        , S        , S        , S        , S        , S        , S        , S,
         S + X    , S + X    , S + X    , S + X    , S + X    , S + X    , S + X    , S + X,
         S        , S        , S        , S        , S        , S        , S        , S,
         S + X    , S + X    , S + X    , S + X    , S + X    , S + X    , S + X    , S + X,
         S + Y    , S + Y    , S + Y    , S + Y    , S + Y    , S + Y    , S + Y    , S + Y,
         S + Y + X, S + Y + X, S + Y + X, S + Y + X, S + Y + X, S + Y + X, S + Y + X, S + Y + X,
         S + Y    , S + Y    , S + Y    , S + Y    , S + Y    , S + Y    , S + Y    , S + Y,
         S + Y + X, S + Y + X, S + Y + X, S + Y + X, S + Y + X, S + Y + X, S + Y + X, S + Y + X
        >>

(***************************************************************************)
(* SpecSzyx: the flags of an 8-bit result with the undocumented flags: an  *)
(* instruction sets F = szyx_flags[A] for any byte in A.                   *)
(***************************************************************************)
SzyxFlags ==
    /\ at = "alu"
    /\ Go(Res([F |-> szyx_flags[A + 1]], "alu_2"))
    /\ UNCHANGED ncmds

NextSzyx == SzMain \/ SzyxFlags

SpecSzyx == InitSzp /\ [][NextSzyx]_vars

\* C21: for every byte b, szyx_flags[b] has Y set iff bit 5 of b is set,
\* X set iff bit 3 of b is set, S set iff bit 7 of b is set, Z set iff
\* b = 0, and no other bit set; the table has 256 entries.
C21_SzyxFlags ==
    /\ Len(szyx_flags) = 256
    /\ (at = "alu_2") =>
          /\ (BitAnd(F, Y_FLAG) # 0) <=> (Bit(A, 5) = 1)
          /\ (BitAnd(F, X_FLAG) # 0) <=> (Bit(A, 3) = 1)
          /\ (BitAnd(F, S_FLAG) # 0) <=> (Bit(A, 7) = 1)
          /\ (BitAnd(F, Z_FLAG) # 0) <=> (A = 0)
          /\ BitClr(F, S_FLAG + Z_FLAG + Y_FLAG + X_FLAG) = 0

\* the flags of 0xa8: bits 7, 5 and 3
C21_Witness == at = "alu_2" /\ A = 168 /\ F = S_FLAG + Y_FLAG + X_FLAG

(***************************************************************************)
(* SpecClock: a simulator with the ICE, the executor in detail.  The       *)
(* commands are the step command and the clock command, which runs         *)
(* LOOP: JP LOOP from address 0 until the timer stops the CPU.             *)
(***************************************************************************)
MaxClockCmds == 2   \* ICE commands issued

MaxClockT == 1300   \* T-states the CPU gets before the timer expires

\* the program in memory: LD R,A; HALT
ClockPrograms == { (0 :> OP_ED) @@ (1 :> OP_LDRA) @@ (2 :> OP_HALT) }

\* main: init_cpu, then the program is loaded and the ICE is entered
KMain ==
    /\ at = "main"
    /\ \E prog \in ClockPrograms, t \in {Tape(MaxTape), Tape(0)} :
          Go(Res(Then(init_cpu(t), [memory |-> prog]), "ice_entry"))
    /\ UNCHANGED ncmds

KIceCmdLoop ==
    /\ at \in {"ice_entry", "ice_cmd_loop"}
    /\ at = "ice_cmd_loop" => ncmds < MaxClockCmds
    /\ \E cmd \in {<<"\n">>, <<"c", "\n">>} : Go(ice_cmd_loop(at, cmd))
    /\ ncmds' = IF at = "ice_cmd_loop" THEN ncmds + 1 ELSE ncmds

KCpuZ80 == (at \in XFetchPos => T < MaxClockT) /\ XCpuZ80

KCpu8080 == (at \in XFetchPos => T < MaxClockT) /\ XCpu8080

NextClock ==
    \/ KMain \/ KIceCmdLoop \/ DoStep \/ DoClock \/ HandleBreak
    \/ RunCpu \/ StepCpu \/ KCpuZ80 \/ KCpu8080 \/ Timeout

SpecClock == InitBreak /\ [][NextClock]_vars

\* the executor fetches the opcode at PC
OpFetch == at \in XFetchPos /\ at' # at

\* the fetch is that of LD R,A on the Z80
LdraFetch ==
    /\ at = "z80_fetch" /\ at' # at
    /\ getmem(PC) = OP_ED /\ getmem(Word(PC + 1)) = OP_LDRA

PortBytes == {255}   \* what an input port handler returns

WaitEntryPos == {"wait_step", "wait_int_step"}

WaitLoopPos == {"wait_step_while", "wait_step_slept", "wait_int_step_while"}

\* a slip: the hook does not set cpu_switch to 3 before it waits
wait_step_keep(pos) ==
    LET done == [cpu_bus |-> cpu_bus \ {"M1"}, m1_step |-> 0]
    IN  CASE pos = "wait_step" ->
                IF cpu_state # SINGLE_STEP THEN {Return(done, 0)}
                ELSE IF "M1" \in cpu_bus /\ m1_step = 0
                THEN {Return([cpu_bus |-> cpu_bus \ {"M1"}], 0)}
                ELSE {Res(NoUpd, "wait_step_while")}
          [] OTHER ->
                IF cpu_switch = 3 /\ reset = 0
                THEN IF cpu_bus = {"WO", "INP"}
                     THEN {Res([fp_led_data |-> d], "wait_step_slept") :
                              d \in PortBytes}
                     ELSE {Res(NoUpd, "wait_step_slept")}
                ELSE {Return(done, IF pos = "wait_step_slept" THEN 1 ELSE 0)}

wait_step(pos) ==
    LET done == [cpu_bus |-> cpu_bus \ {"M1"}, m1_step |-> 0]
    IN  CASE pos = "wait_step" ->
                IF cpu_state # SINGLE_STEP THEN {Return(done, 0)}
                ELSE IF "M1" \in cpu_bus /\ m1_step = 0
                THEN {Return([cpu_bus |-> cpu_bus \ {"M1"}], 0)}
                ELSE {Res([cpu_switch |-> 3], "wait_step_while")}
          [] OTHER ->
                IF cpu_switch = 3 /\ reset = 0
                THEN IF cpu_bus = {"WO", "INP"}
                     THEN {Res([fp_led_data |-> d], "wait_step_slept") :
                              d \in PortBytes}
                     ELSE {Res(NoUpd, "wait_step_slept")}
                ELSE {Return(done, IF pos = "wait_step_slept" THEN 1 ELSE 0)}

wait_int_step(pos) ==
    CASE pos = "wait_int_step" ->
            IF cpu_state # SINGLE_STEP THEN {Return(NoUpd, 0)}
            ELSE {Res([cpu_switch |-> 3], "wait_int_step_while")}
      [] OTHER ->
            IF cpu_switch = 3 /\ reset = 0
            THEN {Res(NoUpd, "wait_int_step_while")}
            ELSE {Return(NoUpd, 0)}

(***************************************************************************)
(* The executor as a sequence of machine cycles: an acknowledge cycle of   *)
(* a pending interrupt, which calls wait_int_step, or the M1 cycle of the  *)
(* opcode fetch followed by the further cycles of the instruction (memory  *)
(* read, memory write, input), each of which calls wait_step.  HALT puts   *)
(* HLTA on the bus status and stops the CPU when interrupts are disabled.  *)
(***************************************************************************)
Cyc(m) == IF m = "cpu_z80" THEN "z80_cyc" ELSE "i8080_cyc"

CycPos == {"z80_cyc", "i8080_cyc"}

\* the bus status of the cycles after M1, by instruction
InstrCycles == { << >>, << {"WO", "INP"}, {} >> }

cpu_cycles(m, pos) ==
    CASE pos = m ->
            IF int_int # 0 /\ IFF % 2 = 1
            THEN {Call([IFF |-> 0, int_int |-> 0, cpu_bus |-> {"INTA", "WO"}],
                       "wait_int_step", Cyc(m), << >>)}
            ELSE {Call(Then([cpu_bus |-> {"WO", "M1", "MEMR"}], u),
                       "wait_step", Cyc(m), c) :
                     u \in {NoUpd, op_ei}, c \in InstrCycles}
                 \cup {Call(Then([cpu_bus |-> {"WO", "M1", "MEMR",
                                               "HLTA"}],
                                 IF IFF = 0
                                 THEN [cpu_error |-> OPHALT,
                                       cpu_state |-> STOPPED]
                                 ELSE NoUpd),
                            "wait_step", Cyc(m), << >>)}
      [] pos = Cyc(m) ->
            IF loc # << >>
            THEN {Call([cpu_bus |-> Head(loc)], "wait_step", Cyc(m),
                       Tail(loc))}
            ELSE {Res(NoUpd, While(m))}
      [] OTHER ->
            {IF cpu_state = CONTIN_RUN THEN Res(NoUpd, m) ELSE Return(NoUpd, 0)}

(***************************************************************************)
(* SpecWait: altairsim with front panel: the CPU thread in mon, run_cpu,   *)
(* step_cpu, the executor and its hooks; the panel thread with the RUN,    *)
(* STEP, RESET and POWER switches and the close of the window; a device    *)
(* that requests an interrupt.                                             *)
(***************************************************************************)
InitWait ==
    /\ build = "BOTH"
    /\ machine = "altairfp"
    /\ R_flag = 0
    /\ boot_switch \in BootAddrs /\ boot_switch_M \in BootAddrs
    /\ cpu = Z80
    /\ StaticData /\ StaticCtl
    /\ at = "main"
    /\ last_op = "static"

WCpuZ80 ==
    /\ at \in {"cpu_z80", "cpu_z80_while", "z80_cyc"}
    /\ \E r \in cpu_cycles("cpu_z80", at) : Go(r)
    /\ UNCHANGED ncmds

WaitStep ==
    /\ at \in {"wait_step", "wait_step_while", "wait_step_slept"}
    /\ \E r \in wait_step(at) : Go(r)
    /\ UNCHANGED ncmds

WaitIntStep ==
    /\ at \in {"wait_int_step", "wait_int_step_while"}
    /\ \E r \in wait_int_step(at) : Go(r)
    /\ UNCHANGED ncmds

\* a call from the panel thread or from a device thread
WPanel(upd, name) ==
    /\ at \notin {"main", "exit"}
    /\ ~ closed
    /\ upd # NoUpd
    /\ Assign(upd)
    /\ last_op' = name
    /\ UNCHANGED <<confVars, at, stack, loc, retval, raised, ncmds, ex_calls,
                   stop_req, after_stop>>

WRunClicked ==
    \E state \in SwStates :
        WPanel(run_clicked(state), "run_clicked") /\ UNCHANGED closed

WStepClicked ==
    \E state \in SwStates :
        WPanel(step_clicked(state), "step_clicked") /\ UNCHANGED closed

\* RESET is raised and released; PC is 0 afterwards, a page of the table
WResetClicked ==
    \E state \in {"FP_SW_UP", "FP_SW_CENTER"}, oob \in {0} :
        WPanel(reset_clicked(state, oob), "reset_clicked")
        /\ UNCHANGED closed

WPowerClicked ==
    \E state \in SwStates :
        WPanel(power_clicked(state), "power_clicked") /\ UNCHANGED closed

WQuitCallback ==
    WPanel(quit_callback, "quit_callback") /\ closed' = TRUE

WRequestInterrupt ==
    /\ int_int = 0
    /\ WPanel(request_interrupt(OP_RST38), "request_interrupt")
    /\ UNCHANGED closed

CpuThread ==
    Main \/ Mon \/ RunCpu \/ StepCpu \/ WCpuZ80 \/ WaitStep \/ WaitIntStep

NextWait ==
    \/ Main \/ Mon \/ RunCpu \/ StepCpu \/ WCpuZ80 \/ WaitStep \/ WaitIntStep
    \/ WRunClicked \/ WStepClicked \/ WResetClicked \/ WPowerClicked
    \/ WQuitCallback \/ WRequestInterrupt

SpecWait == InitWait /\ [][NextWait]_vars

\* the CPU thread takes its steps
SpecWaitFair == SpecWait /\ WF_vars(CpuThread)

(***************************************************************************)
(* Properties of the hooks (SpecWait, SpecWaitFair).                       *)
(***************************************************************************)
\* the CPU thread is in the loop of a hook and the loop condition holds
Blocked == at \in WaitLoopPos /\ cpu_switch = 3 /\ reset = 0

\* the step ends the blocking: the loop condition is made false
Unblocks == Blocked /\ (cpu_switch' # 3 \/ reset' # 0)

ResetReleases == (at \in WaitLoopPos /\ reset # 0) ~> (at \notin WaitLoopPos)

(***************************************************************************)
(* altairsim simctl.c: the callbacks of the EXAMINE and DEPOSIT switches.  *)
(* address_switch is what the address switches are set to when the switch  *)
(* is clicked.                                                             *)
(***************************************************************************)
\* the mem_wp LED for PC
wp_led(pc) ==
    IF p_attr(pc \div 256) \in {"MEM_RO", "MEM_WPROT"} THEN 1 ELSE 0

examine_clicked(state, address_switch) ==
    IF power = 0 THEN NoUpd
    ELSE IF cpu_state = CONTIN_RUN \/ "HLTA" \in cpu_bus THEN NoUpd
    ELSE CASE state = "FP_SW_UP" ->
                [fp_led_address |-> address_switch,
                 fp_led_data |-> fp_read(address_switch),
                 PC |-> address_switch,
                 mem_wp |-> wp_led(address_switch)]
           [] state = "FP_SW_DOWN" ->
                LET a == Word(fp_led_address + 1)
                IN  [fp_led_address |-> a, fp_led_data |-> fp_read(a),
                     PC |-> a, mem_wp |-> wp_led(a)]
           [] OTHER -> NoUpd

deposit_clicked(state, address_switch) ==
    IF power = 0 THEN NoUpd
    ELSE IF cpu_state = CONTIN_RUN \/ "HLTA" \in cpu_bus THEN NoUpd
    ELSE IF p_attr(PC \div 256) \in {"MEM_RO", "MEM_WPROT"}
    THEN [mem_wp |-> 1]
    ELSE Then([mem_wp |-> 0],
              CASE state = "FP_SW_UP" ->
                      [fp_led_data |-> address_switch % 256,
                       memory |-> putmem(memory, PC, address_switch % 256)]
                [] state = "FP_SW_DOWN" ->
                      [PC |-> Word(PC + 1),
                       fp_led_address |-> Word(fp_led_address + 1),
                       fp_led_data |-> address_switch % 256,
                       memory |-> putmem(memory, Word(PC + 1),
                                         address_switch % 256)]
                [] OTHER -> NoUpd)

(***************************************************************************)
(* SpecPanel: altairsim with front panel and the switches that work on     *)
(* memory, the CPU stopped: the CPU thread in the loop of mon; the panel   *)
(* thread with POWER, EXAMINE, DEPOSIT and PROTECT.  The configuration     *)
(* makes the top page ROM or RAM.                                          *)
(***************************************************************************)
MaxPanelOps == 3    \* clicks of EXAMINE, DEPOSIT and PROTECT

\* settings of the address switches: the last address of page 0, the first
\* of page 1, the last address below the top page
PanelAddrs == {255, 256, 65279}

PMain ==
    /\ at = "main"
    /\ \E rom \in RomPages :
          Go(Res(Then(init_cpu(Tape(MaxTape)),
                      [p_tab |-> [p \in rom |-> "MEM_RO"]]), "mon"))
    /\ UNCHANGED ncmds

\* a click of one of the switches, at most max of them; the switch is
\* recorded also when the callback changes nothing, and the attribute the
\* page of PC had when the switch was clicked is kept in retval
PPanel(upd, name, max) ==
    /\ at \notin {"main", "exit"}
    /\ ncmds < max
    /\ Assign(upd)
    /\ last_op' = name
    /\ ncmds' = ncmds + 1
    /\ retval' = p_attr(PC \div 256)
    /\ UNCHANGED <<confVars, at, stack, loc, raised, closed,
                   ex_calls, stop_req, after_stop>>

PExamineClicked ==
    \E a \in PanelAddrs :
        \/ PPanel(examine_clicked("FP_SW_UP", a), "examine", MaxPanelOps)
        \/ PPanel(examine_clicked("FP_SW_DOWN", a), "examine_next",
                  MaxPanelOps)

PDepositClicked ==
    \E a \in PanelAddrs :
        \/ PPanel(deposit_clicked("FP_SW_UP", a), "deposit", MaxPanelOps)
        \/ PPanel(deposit_clicked("FP_SW_DOWN", a), "deposit_next",
                  MaxPanelOps)

PProtectClicked ==
    \/ PPanel(protect_clicked("FP_SW_UP"), "protect", MaxPanelOps)
    \/ PPanel(protect_clicked("FP_SW_DOWN"), "unprotect", MaxPanelOps)

PPowerOn ==
    /\ power = 0
    /\ WPanel(power_clicked("FP_SW_DOWN"), "power_clicked")
    /\ UNCHANGED closed

NextPanel ==
    \/ PMain \/ Mon \/ PPowerOn
    \/ PExamineClicked \/ PDepositClicked \/ PProtectClicked

SpecPanel == InitWait /\ [][NextPanel]_vars

(***************************************************************************)
(* SpecProtect: the same machine with RUN/STOP: the CPU runs or is         *)
(* stopped while EXAMINE and PROTECT are clicked.                          *)
(***************************************************************************)
NextProtect ==
    \/ PMain \/ Mon \/ RunCpu \/ WCpuZ80 \/ WaitStep
    \/ PPowerOn \/ WRunClicked
    \/ PExamineClicked \/ PProtectClicked

SpecProtect == InitWait /\ [][NextProtect]_vars

(***************************************************************************)
(* SpecPanelCpu: the same machine with the CPU at work: RUN/STOP and STEP  *)
(* start the CPU thread, which runs, single-steps through the machine      *)
(* cycles of an instruction, or halts, while EXAMINE and DEPOSIT are       *)
(* clicked.                                                                *)
(***************************************************************************)
MaxCpuPanelOps == 1     \* clicks of EXAMINE and DEPOSIT

QExamineClicked ==
    \/ PPanel(examine_clicked("FP_SW_UP", 256), "examine", MaxCpuPanelOps)
    \/ PPanel(examine_clicked("FP_SW_DOWN", 256), "examine_next",
              MaxCpuPanelOps)

QDepositClicked ==
    \/ PPanel(deposit_clicked("FP_SW_UP", 255), "deposit", MaxCpuPanelOps)
    \/ PPanel(deposit_clicked("FP_SW_DOWN", 255), "deposit_next",
              MaxCpuPanelOps)

NextPanelCpu ==
    \/ Main \/ Mon \/ RunCpu \/ StepCpu \/ WCpuZ80 \/ WaitStep
    \/ PPowerOn \/ WRunClicked \/ WStepClicked
    \/ QExamineClicked \/ QDepositClicked

SpecPanelCpu == InitWait /\ [][NextPanelCpu]_vars

(***************************************************************************)
(* Properties of EXAMINE and DEPOSIT with the CPU at work (SpecPanelCpu).  *)
(***************************************************************************)
\* the step is a click of EXAMINE, EXAMINE NEXT, DEPOSIT or DEPOSIT NEXT
ExDepStep ==
    /\ last_op' \in {"examine", "examine_next", "deposit", "deposit_next"}
    /\ ncmds' = ncmds + 1

\* the CPU thread is inside the executor or one of its hooks
CpuAtWork ==
    at \in {"cpu_z80", "cpu_z80_while", "z80_cyc", "wait_step",
            "wait_step_while", "wait_step_slept"}

\* the callbacks refuse while cpu_state is CONTIN_RUN or HLTA is on the bus
\* status: PC, memory and the address and data LEDs are left alone
C24_Guard ==
    [][(ExDepStep /\ (cpu_state = CONTIN_RUN \/ "HLTA" \in cpu_bus)) =>
          /\ PC' = PC /\ memory' = memory
          /\ fp_led_address' = fp_led_address
          /\ fp_led_data' = fp_led_data]_vars

\* C24: examine_clicked and deposit_clicked change neither PC, nor memory,
\* nor the address and data LEDs when cpu_state = CONTIN_RUN or HLTA is on
\* the bus status, and so the panel changes neither memory nor PC while the
\* CPU executes or is halted.
C24_Original ==
    /\ C24_Guard
    /\ [][(ExDepStep /\ (CpuAtWork \/ "HLTA" \in cpu_bus)) =>
             (PC' = PC /\ memory' = memory)]_vars

\* DEPOSIT NEXT has written memory while the CPU thread waits in a machine
\* cycle of the instruction it single-steps
C24_Race ==
    /\ last_op = "deposit_next" /\ at \in {"wait_step_while",
                                           "wait_step_slept"}
    /\ cpu_state = SINGLE_STEP /\ memory # NoUpd

(***************************************************************************)
(* Properties of DEPOSIT and PROTECT (SpecPanel).                          *)
(***************************************************************************)
\* the step is a click of DEPOSIT or DEPOSIT NEXT
DepositStep ==
    /\ last_op' \in {"deposit", "deposit_next"}
    /\ ncmds' = ncmds + 1

\* the addresses a deposit can reach from the settings of the switches
DepositAddrs ==
    UNION {{a, Word(a + 1), Word(a + 2), Word(a + 3)} : a \in PanelAddrs}

Protected(a) == p_attr(a \div 256) \in {"MEM_RO", "MEM_WPROT"}

\* a deposit refused for the attribute of the page of PC sets mem_wp and
\* leaves PC, the address LEDs and memory alone
C25_Refused ==
    [][(DepositStep /\ power # 0 /\ cpu_state # CONTIN_RUN
        /\ "HLTA" \notin cpu_bus /\ Protected(PC)) =>
          /\ mem_wp' = 1 /\ PC' = PC /\ memory' = memory
          /\ fp_led_address' = fp_led_address]_vars

\* C25: DEPOSIT and DEPOSIT NEXT never change a byte in a page with
\* attribute MEM_RO or MEM_WPROT, for every PC including the last address
\* of a page, and a refused deposit sets mem_wp = 1 and leaves PC,
\* fp_led_address and memory unchanged.
C25_Original ==
    /\ [][DepositStep =>
             \A a \in DepositAddrs :
                 Protected(a) => memrdr(a)' = memrdr(a)]_vars
    /\ C25_Refused

\* DEPOSIT NEXT at the last address below the ROM has written the first
\* byte of the ROM
C25_RomWritten ==
    /\ last_op = "deposit_next" /\ PC = 65280
    /\ p_attr(255) = "MEM_RO" /\ memrdr(65280) = 255

(***************************************************************************)
(* Properties of PROTECT (SpecProtect).                                    *)
(***************************************************************************)
\* the step is a click of PROTECT or UNPROTECT
ProtectStep ==
    /\ last_op' \in {"protect", "unprotect"}
    /\ ncmds' = ncmds + 1

\* the pages the settings of the address switches lie in, and their
\* neighbours
PanelPages == {0, 1, 2, 254, 255}

\* the click changes the attribute of the page of PC only, RW to WPROT for
\* PROTECT and WPROT to RW for UNPROTECT, with mem_wp set and cleared; it
\* changes nothing while the power is off or the CPU runs
ProtectEffect ==
    [][ProtectStep =>
          LET page == PC \div 256
              attr == p_attr(page)
          IN  /\ \A p \in PanelPages \ {page} : p_attr(p)' = p_attr(p)
              /\ IF power = 0 \/ cpu_state = CONTIN_RUN
                 THEN p_attr(page)' = attr /\ mem_wp' = mem_wp
                 ELSE IF last_op' = "protect" /\ attr = "MEM_RW"
                 THEN p_attr(page)' = "MEM_WPROT" /\ mem_wp' = 1
                 ELSE IF last_op' = "unprotect" /\ attr = "MEM_WPROT"
                 THEN p_attr(page)' = "MEM_RW" /\ mem_wp' = 0
                 ELSE p_attr(page)' = attr /\ mem_wp' = mem_wp]_vars

\* UNPROTECT is clicked right after PROTECT
ProtectUnprotect ==
    last_op = "protect" /\ last_op' = "unprotect" /\ ncmds' = ncmds + 1

\* C26 as stated: protect_clicked changes only the attribute of the page of
\* PC, only between MEM_RW and MEM_WPROT, never that of a MEM_RO page,
\* nothing while cpu_state = CONTIN_RUN, and PROTECT followed by UNPROTECT
\* restores the page table.
C26_Original ==
    /\ ProtectEffect
    /\ [][ProtectUnprotect =>
             \A p \in PanelPages :
                 p_attr(p)' = IF p = PC \div 256 THEN retval
                              ELSE p_attr(p)]_vars

\* C26: protect_clicked changes only the attribute of the page of PC, only
\* between MEM_RW and MEM_WPROT, never that of a MEM_RO page, nothing while
\* cpu_state = CONTIN_RUN; PROTECT followed by UNPROTECT restores the page
\* table when the page was not protected before PROTECT was clicked, and
\* leaves the page RW otherwise.
C26_Protect ==
    /\ ProtectEffect
    /\ [][ProtectUnprotect =>
             \A p \in PanelPages :
                 p_attr(p)' = IF p # PC \div 256 THEN p_attr(p)
                              ELSE IF retval = "MEM_WPROT"
                                      /\ power # 0 /\ cpu_state # CONTIN_RUN
                                   THEN "MEM_RW"
                                   ELSE retval]_vars

\* page 1 has been protected and unprotected again
C26_Witness ==
    /\ last_op = "unprotect" /\ PC = 256 /\ retval = "MEM_WPROT"
    /\ p_attr(1) = "MEM_RW" /\ 1 \in DOMAIN p_tab /\ mem_wp = 0

(***************************************************************************)
(* RESET on the panel of a machine with configured boot switch and ROM     *)
(* (SpecReset): the CPU is stopped, the switches RESET, EXAMINE and        *)
(* PROTECT are clicked.                                                    *)
(***************************************************************************)
\* boot switch addresses: the first address, the last one of page 0, the
\* first one of page 1 and the first one of the top page
ResetBootAddrs == {0, 255, 256, 65280}

InitReset ==
    /\ build = "BOTH"
    /\ machine = "altairfp"
    /\ R_flag \in {0, 1}
    /\ boot_switch = 0 /\ boot_switch_M \in ResetBootAddrs
    /\ cpu = Z80
    /\ StaticData /\ StaticCtl
    /\ at = "main"
    /\ last_op = "static"

\* oob: see reset_clicked
PResetClicked ==
    \E oob \in {0, 1} :
        \/ PPanel(reset_clicked("FP_SW_UP", oob), "reset_up", MaxPanelOps)
        \/ PPanel(reset_clicked("FP_SW_CENTER", oob), "reset_center",
                  MaxPanelOps)
        \/ PPanel(reset_clicked("FP_SW_DOWN", oob), "reset_down",
                  MaxPanelOps)

NextReset ==
    \/ PMain \/ Mon \/ PPowerOn
    \/ PResetClicked \/ PExamineClicked \/ PProtectClicked

SpecReset == InitReset /\ [][NextReset]_vars

\* the step in which the released RESET switch completes a reset
ResetDone ==
    /\ last_op' = "reset_center" /\ ncmds' = ncmds + 1
    /\ power # 0 /\ reset # 0

\* the index reset_clicked reads p_tab with once PC is set: p_tab[PC]
reset_index(pc) == pc

\* C27: when reset processing completes, mem_wp is 1 exactly when the page
\* of the new PC (PC >> 8) is MEM_RO or MEM_WPROT, and the page table is
\* indexed with a page number 0..255, for every boot switch address.
C27_Original ==
    [][ResetDone => /\ mem_wp' = wp_led(PC')
                    /\ reset_index(PC') \in 0 .. (NPages - 1)]_vars

\* when reset processing completes with the new PC in page 0, mem_wp is 1
\* exactly when the page with the number PC is MEM_RO or MEM_WPROT
C27_PageOfLowByte ==
    [][(ResetDone /\ PC' < NPages) =>
          mem_wp' = (IF p_attr(PC') \in {"MEM_RO", "MEM_WPROT"}
                     THEN 1 ELSE 0)]_vars

\* a reset to the boot switch address 255 in RAM has lit the LED for the
\* ROM page 255
C27_WrongPage ==
    /\ last_op = "reset_center" /\ reset = 0 /\ PC = 255
    /\ p_attr(0) = "MEM_RW" /\ p_attr(255) = "MEM_RO" /\ mem_wp = 1

\* a reset to the boot switch address in the ROM page 255 has left the LED
\* dark
C27_RomDark ==
    /\ last_op = "reset_center" /\ reset = 0 /\ PC = 65280
    /\ p_attr(255) = "MEM_RO" /\ mem_wp = 0

(***************************************************************************)
(* SpecBp: the ICE with software breakpoints.  Breakpoints are set and     *)
(* cleared with the b command, the program is run with g and stepped with  *)
(* the empty command.                                                      *)
(***************************************************************************)
MaxBpCmds == 4      \* ICE commands per behaviour
MaxBpT == 40        \* the executor fetches while T is below this

\* HALT; NOP; DI, the loop JP 0, and DI; HALT
BpPrograms ==
    { (0 :> OP_HALT) @@ (2 :> OP_DI),
      (0 :> OP_JP) @@ (1 :> 0) @@ (2 :> 0),
      (0 :> OP_DI) @@ (1 :> OP_HALT) }

\* set the next slot at address 0 with pass count 2, set slot 1 at address
\* 0, clear slot 0, clear slot 1, go, step
BpCmds ==
    { <<"b", " ", "0", ",", "2", "\n">>, <<"b", "1", " ", "0", "\n">>,
      <<"b", "0", " ", "c", "\n">>, <<"b", "1", " ", "c", "\n">>,
      <<"g", "\n">>, <<"\n">> }

InitBp ==
    /\ build = "BOTH"
    /\ machine = "ice"
    /\ R_flag = 0 /\ boot_switch = 0 /\ boot_switch_M = 0
    /\ cpu = Z80
    /\ StaticData /\ StaticCtl
    /\ at = "main"
    /\ last_op = "static"

BpMain ==
    /\ at = "main"
    /\ \E prog \in BpPrograms :
          Go(Res(Then(init_cpu(Tape(MaxTape)), [memory |-> prog]),
                 "ice_entry"))
    /\ UNCHANGED ncmds

BpIceCmdLoop ==
    /\ at \in {"ice_entry", "ice_cmd_loop"}
    /\ at = "ice_cmd_loop" => ncmds < MaxBpCmds
    /\ \E cmd \in BpCmds : Go(ice_cmd_loop(at, cmd))
    /\ ncmds' = IF at = "ice_cmd_loop" THEN ncmds + 1 ELSE ncmds

BpCpuZ80 == (at \in XFetchPos => T < MaxBpT) /\ XCpuZ80

NextBp ==
    \/ BpMain \/ BpIceCmdLoop \/ DoStep \/ DoGo \/ HandleBreak
    \/ RunCpu \/ StepCpu \/ BpCpuZ80

SpecBp == InitBp /\ [][NextBp]_vars

(***************************************************************************)
(* Properties of the software breakpoints (SpecBp).                        *)
(***************************************************************************)
Slots == 0 .. SBSIZE - 1

\* the slots that hold a breakpoint set at address a (the b command lists
\* the slots with sb_pass # 0)
SetAt(a) == {k \in Slots : soft[k].sb_pass # 0 /\ soft[k].sb_addr = a}

\* handle_break returns in this step
HbReturns ==
    /\ at \in {"handle_break", "handle_break_1"}
    /\ Len(stack') < Len(stack)

\* C28: handle_break returns 1 only when PC - 1 is the address of a
\* breakpoint that is set and whose pass counter has not reached its pass
\* count; for a HALT at an address where no breakpoint is set it returns 0
\* and changes neither PC, nor memory, nor a pass counter.
C28_Original ==
    /\ [][(HbReturns /\ retval' = 1) =>
             /\ at = "handle_break_1"
             /\ soft[loc].sb_pass # 0
             /\ soft[loc].sb_passcount + 1 # soft[loc].sb_pass]_vars
    /\ [][(at = "handle_break" /\ SetAt(PC - 1) = {}) =>
             /\ HbReturns /\ retval' = 0
             /\ PC' = PC /\ memory' = memory /\ soft' = soft]_vars

\* for a HALT at an address that is in no slot of the table, set or not,
\* handle_break returns 0 and changes neither PC, nor memory, nor a pass
\* counter
C28_NoSlot ==
    [][(at = "handle_break"
        /\ \A k \in Slots : soft[k].sb_addr # PC - 1) =>
          /\ HbReturns /\ retval' = 0
          /\ PC' = PC /\ memory' = memory /\ soft' = soft]_vars

\* the run has stopped at the HALT at address 1, which is in no slot
C28_Stopped ==
    /\ at = "do_go_2" /\ retval = 0 /\ PC = 2 /\ getmem(1) = OP_HALT
    /\ \A k \in Slots : soft[k].sb_addr = 0

\* with no breakpoint set, handle_break has told do_go to go on after the
\* HALT at address 0
C28_Continues ==
    /\ at = "do_go_2" /\ retval = 1 /\ PC = 1 /\ getmem(0) = OP_HALT
    /\ \A k \in Slots : soft[k].sb_pass = 0
    /\ soft[0].sb_passcount = 1

\* every slot of the table is cleared
AllCleared == \A k \in Slots : soft[k] = soft_clear

\* the addresses the programs and the breakpoints use
BpAddrs == 0 .. 3

\* memory holds one of the programs as it was loaded
ProgramIntact ==
    \E prog \in BpPrograms :
        \A a \in BpAddrs :
            getmem(a) = IF a \in DOMAIN prog THEN prog[a] ELSE MemFill

\* C29: at the prompt, when every slot is cleared, every memory byte has
\* the value it had before the first breakpoint was set, also when two
\* slots were set at the same address or an unused slot was cleared.
C29_Original == (at = "ice_cmd_loop" /\ AllCleared) => ProgramIntact

\* the b command clears slot i in this step
ClearStep(i) ==
    /\ at = "ice_cmd_loop" /\ at' = "ice_cmd_loop"
    /\ soft # soft' /\ soft' = [soft EXCEPT ![i] = soft_clear]

\* a clear of a slot writes the opcode saved in the slot to the slot's
\* address and no other byte
C29_ClearWrites ==
    [][\A i \in Slots :
          ClearStep(i) =>
              \A a \in BpAddrs :
                  getmem(a)' = IF a = soft[i].sb_addr
                               THEN soft[i].sb_oldopc ELSE getmem(a)]_vars

\* the clear of a slot that was never set has written 00 over the first
\* opcode of the program
C29_UnusedCleared ==
    /\ at = "ice_cmd_loop" /\ AllCleared /\ ncmds = 1 /\ T = 0
    /\ getmem(0) = 0 /\ getmem(1) = OP_HALT

\* two slots set at address 0 have been cleared in the order they were set
\* and the HALT opcode is left where JP was
C29_HaltLeft ==
    /\ at = "ice_cmd_loop" /\ AllCleared /\ ncmds = 4 /\ T = 0
    /\ getmem(0) = OP_HALT /\ getmem(1) = 0 /\ getmem(2) = 0

\* the byte at addr after the step
getmem_next(addr) ==
    IF addr \in DOMAIN memory' THEN memory'[addr] ELSE MemFill

\* the hit of the breakpoint in slot k: handle_break steps PC back to the
\* HALT opcode, puts the saved opcode there and executes it with step_cpu,
\* keeping k for the count
HitOf(k) ==
    /\ at' = "step_cpu" /\ PC' = PC - 1
    /\ getmem_next(PC - 1) = soft[k].sb_oldopc
    /\ Head(stack').pos = "handle_break_1" /\ Head(stack').loc = k

\* after the opcode is executed the HALT opcode is put back and the hit is
\* counted in slot loc: handle_break returns 1 while the count is not the
\* pass count, and 0 with the count reset when it is
HitCounted ==
    [][at = "handle_break_1" =>
          LET n == soft[loc].sb_pass
              c == soft[loc].sb_passcount + 1
          IN  /\ HbReturns
              /\ getmem_next(soft[loc].sb_addr) = OP_HALT
              /\ soft' = [soft EXCEPT ![loc].sb_passcount =
                                         IF c = n THEN 0 ELSE c]
              /\ retval' = IF c = n THEN 0 ELSE 1]_vars

\* do_go runs on when handle_break returns 1 and ends when it returns 0
GoStops ==
    [][at = "do_go_2" =>
          IF retval = 0 THEN Len(stack') < Len(stack)
          ELSE at' = "do_go_loop"]_vars

\* between hits the counter of a breakpoint is below its pass count
CountBelowPass ==
    \A k \in Slots :
        soft[k].sb_pass >= 1 =>
            soft[k].sb_passcount \in 0 .. (soft[k].sb_pass - 1)

\* C30: a breakpoint set with pass count n >= 1 stops the run on every
\* n-th time it is reached: on each hit the original opcode is executed
\* once, HALT is put back and sb_passcount is incremented, the run
\* continues while sb_passcount # n, on the n-th hit it stops and
\* sb_passcount is reset to 0, so 0 <= sb_passcount < n between hits.
C30_Original ==
    /\ [][\A k \in Slots :
             (at = "handle_break" /\ k \in SetAt(PC - 1)) => HitOf(k)]_vars
    /\ HitCounted
    /\ GoStops
    /\ [] CountBelowPass

\* the same for the breakpoint in the first slot of the table that has the
\* address, an unused slot having the address 0
C30_FirstSlot ==
    /\ [][\A k \in Slots :
             (at = "handle_break" /\ k \in SetAt(PC - 1)
              /\ \A j \in 0 .. (k - 1) : soft[j].sb_addr # PC - 1)
                 => HitOf(k)]_vars
    /\ HitCounted
    /\ GoStops
    /\ [] CountBelowPass

\* the run has stopped at the second hit of the breakpoint with pass count
\* 2 set on the JP at address 0
C30_SecondHit ==
    /\ at = "do_go_2" /\ retval = 0 /\ PC = 0 /\ T = 28
    /\ soft[0].sb_pass = 2 /\ soft[0].sb_passcount = 0
    /\ soft[0].sb_oldopc = OP_JP /\ getmem(0) = OP_HALT

\* the run goes on after the hit of the breakpoint set in slot 1 on the JP
\* at address 0: the hit is counted in the unused slot 0 and a NOP has been
\* executed in place of the JP
C30_NeverStops ==
    /\ at = "do_go_2" /\ retval = 1 /\ PC = 1
    /\ SetAt(0) = {1} /\ soft[1].sb_oldopc = OP_JP
    /\ soft[1].sb_passcount = 0 /\ soft[0].sb_passcount = 1

(***************************************************************************)
(* SpecMove: the ICE's move command on a small memory.                     *)
(***************************************************************************)
MaxMoveCmds == 2    \* move commands per behaviour
MaxCount == 3       \* the largest count of a move

\* the addresses of the commands: the first ones and the last one
MoveFrom == {0, 1, 65535}
MoveTo == {0, 1, 2, 65535}

\* the addresses the moves read and write
MoveAddrs == {65535} \cup (0 .. (MaxCount + 2))

\* a number as it is typed
HexArg(n) == IF n = 65535 THEN <<"f", "f", "f", "f">> ELSE <<Digits[n + 1]>>

\* the line "v from,to,count"
MoveCmd(from, to, count) ==
    <<"v", " ">> \o HexArg(from) \o <<",">> \o HexArg(to) \o <<",">>
    \o HexArg(count) \o <<"\n">>

\* memory holds different bytes at the addresses the moves use
VMain ==
    /\ at = "main"
    /\ \E k \in {1, 5} :
          Go(Res(Then(init_cpu(Tape(MaxTape)),
                      [memory |-> [a \in MoveAddrs |-> (a * k + 16) % 256]]),
                 "ice_entry"))
    /\ UNCHANGED ncmds

VIceEntry ==
    /\ at = "ice_entry"
    /\ Go(ice_cmd_loop(at, <<"\n">>))
    /\ UNCHANGED ncmds

\* a move command; the line typed stays in the command buffer, the local
\* cmd of ice_cmd_loop
VIceCmdLoop ==
    /\ at = "ice_cmd_loop"
    /\ ncmds < MaxMoveCmds
    /\ \E from \in MoveFrom, to \in MoveTo, count \in 0 .. MaxCount :
          LET cmd == MoveCmd(from, to, count)
          IN  /\ Assign(ice_cmd_loop(at, cmd).upd)
              /\ at' = ice_cmd_loop(at, cmd).to
              /\ loc' = cmd
    /\ last_op' = at
    /\ ncmds' = ncmds + 1
    /\ UNCHANGED <<confVars, stack, retval, raised, closed, ex_calls,
                   stop_req, after_stop>>

NextMove == VMain \/ VIceEntry \/ VIceCmdLoop

SpecMove == InitBp /\ [][NextMove]_vars

\* the command "v from,to,count" is executed in this step
MoveStep(from, to, count) ==
    /\ at = "ice_cmd_loop" /\ ncmds' = ncmds + 1
    /\ loc' = MoveCmd(from, to, count)

\* the count bytes at to are after the step what the count bytes at from
\* were before it
Moved(from, to, count) ==
    \A j \in 0 .. (count - 1) :
        getmem_next((to + j) % 65536) = getmem((from + j) % 65536)

\* C31: after "v from,to,count" the count bytes at to equal the count
\* bytes that were at from before the command, addresses modulo 2^16, for
\* every from, to and count, overlapping ranges included.
C31_Original ==
    [][\A from \in MoveFrom, to \in MoveTo, count \in 0 .. MaxCount :
          MoveStep(from, to, count) => Moved(from, to, count)]_vars

\* the same for the moves in which to does not lie in the count - 1
\* addresses that follow from
C31_NoForwardOverlap ==
    [][\A from \in MoveFrom, to \in MoveTo, count \in 0 .. MaxCount :
          (MoveStep(from, to, count)
           /\ ((to - from) % 65536 = 0 \/ (to - from) % 65536 >= count))
              => Moved(from, to, count)]_vars

\* every move writes count bytes and no byte outside to .. to + count - 1
C31_Frame ==
    [][\A from \in MoveFrom, to \in MoveTo, count \in 0 .. MaxCount :
          MoveStep(from, to, count) =>
              \A a \in MoveAddrs :
                  (\A j \in 0 .. (count - 1) : a # (to + j) % 65536)
                      => getmem_next(a) = getmem(a)]_vars

\* "v 0,1,2" has copied the byte at 0 to both 1 and 2
C31_Smeared ==
    /\ at = "ice_cmd_loop" /\ ncmds = 1 /\ loc = MoveCmd(0, 1, 2)
    /\ getmem(0) = 16 /\ getmem(1) = 16 /\ getmem(2) = 16 /\ getmem(3) = 19

\* "v ffff,0,2" has copied the byte at ffff to both 0 and 1
C31_Wrapped ==
    /\ at = "ice_cmd_loop" /\ ncmds = 1 /\ loc = MoveCmd(65535, 0, 2)
    /\ getmem(65535) = 15 /\ getmem(0) = 15 /\ getmem(1) = 15

(***************************************************************************)
(* SpecVdm: the keyboard of the Processor Technology VDM (proctec-vdm.c).  *)
(* The window's thread takes key events from the event queue and hands     *)
(* one character at a time to the CPU through proctec_kbd_data and         *)
(* proctec_kbd_status (0: a character waits, 1: none).  machine is the     *)
(* build: "vdm_x11" polls the X11 queue from refresh, "vdm_sdl" (WANT_SDL) *)
(* registers event_handler with simsdl.  simsdl.c and the port functions   *)
(* of the CPU side are not part of the sources at hand: simsdl hands       *)
(* every event it polls to the handler, which returns nothing, and the     *)
(* CPU side reads the character and sets the status to 1.                  *)
(***************************************************************************)
MaxKeys == 3        \* keys typed per behaviour
MaxQueue == 2       \* events the queue holds

\* an event of the queue: 0 is an event that is no key press, k > 0 the
\* press of the key with the character k
IsKey(ev) == ev > 0

\* the handlers return nothing: Return hands back the value that is there
\* X11: event_handler, called from refresh for every line of the display
event_handler(pos) ==
    CASE pos = "event_handler" ->
            IF proctec_kbd_status = 0 THEN Return(NoUpd, retval)
            ELSE IF Len(ev_queue) > 0
            THEN IF IsKey(Head(ev_queue))
                 THEN Res([ev_queue |-> Tail(ev_queue),
                           proctec_kbd_data |-> Head(ev_queue)],
                          "event_handler_1")
                 ELSE Return([ev_queue |-> Tail(ev_queue)], retval)
            ELSE Return(NoUpd, retval)
      [] pos = "event_handler_1" -> Return([proctec_kbd_status |-> 0], retval)

\* X11: the loop of the display thread
refresh(pos) ==
    CASE pos = "refresh" -> Call(NoUpd, "event_handler", "refresh", 0)

\* SDL: event_handler(event) for an SDL_TEXTINPUT event of the window;
\* other events are ignored
sdl_event_handler(pos, event) ==
    CASE pos = "sdl_event_handler" ->
            IF IsKey(event)
            THEN IF proctec_kbd_status = 0 THEN Return(NoUpd, retval)
                 ELSE Res([proctec_kbd_data |-> event],
                          "sdl_event_handler_1")
            ELSE Return(NoUpd, retval)
      [] pos = "sdl_event_handler_1" ->
            Return([proctec_kbd_status |-> 0], retval)

\* SDL: simsdl polls an event and calls the handler registered in
\* proctec_funcs with it
simsdl_poll(pos) ==
    CASE pos = "simsdl_poll" ->
            IF Len(ev_queue) > 0
            THEN CallArg([ev_queue |-> Tail(ev_queue)], "sdl_event_handler",
                         Head(ev_queue), "simsdl_poll", 0)
            ELSE Res(NoUpd, "simsdl_poll")

\* the CPU reads the keyboard data port when the status port shows a
\* character
kbd_data_in == [proctec_kbd_status |-> 1]

InitVdm ==
    /\ build = "BOTH"
    /\ machine \in {"vdm_x11", "vdm_sdl"}
    /\ R_flag = 0 /\ boot_switch = 0 /\ boot_switch_M = 0
    /\ cpu = Z80
    /\ StaticData /\ StaticCtl
    /\ at = "main"
    /\ last_op = "static"

\* proctec_vdm_out starts the display
VdmMain ==
    /\ at = "main"
    /\ Go(Res(NoUpd, IF machine = "vdm_sdl" THEN "simsdl_poll"
                     ELSE "refresh"))
    /\ UNCHANGED ncmds

Refresh ==
    /\ at = "refresh"
    /\ Go(refresh(at))
    /\ UNCHANGED ncmds

EventHandler ==
    /\ at \in {"event_handler", "event_handler_1"}
    /\ Go(event_handler(at))
    /\ UNCHANGED ncmds

SimsdlPoll ==
    /\ at = "simsdl_poll"
    /\ ev_queue # <<>>
    /\ Go(simsdl_poll(at))
    /\ UNCHANGED ncmds

SdlEventHandler ==
    /\ at \in {"sdl_event_handler", "sdl_event_handler_1"}
    /\ Go(sdl_event_handler(at, loc))
    /\ UNCHANGED ncmds

\* something outside the threads of the display acts
VdmEvent(upd, name) ==
    /\ at # "main"
    /\ Assign(upd)
    /\ last_op' = name
    /\ UNCHANGED <<confVars, at, stack, loc, raised, closed, ex_calls,
                   stop_req, after_stop>>

\* the keys typed carry the characters 1, 2, ... in the order typed
KeyTyped ==
    /\ ncmds < MaxKeys /\ Len(ev_queue) < MaxQueue
    /\ VdmEvent([ev_queue |-> Append(ev_queue, ncmds + 1)], "key")
    /\ ncmds' = ncmds + 1
    /\ UNCHANGED retval

\* an event that is no key press arrives
OtherEvent ==
    /\ Len(ev_queue) < MaxQueue
    /\ \A i \in 1 .. Len(ev_queue) : IsKey(ev_queue[i])
    /\ VdmEvent([ev_queue |-> Append(ev_queue, 0)], "event")
    /\ UNCHANGED <<ncmds, retval>>

\* the CPU takes the character; retval is the character it took last
KbdDataIn ==
    /\ proctec_kbd_status = 0
    /\ VdmEvent(kbd_data_in, "kbd_data_in")
    /\ retval' = proctec_kbd_data
    /\ UNCHANGED ncmds

NextVdm ==
    \/ VdmMain \/ Refresh \/ EventHandler \/ SimsdlPoll \/ SdlEventHandler
    \/ KeyTyped \/ OtherEvent \/ KbdDataIn

SpecVdm == InitVdm /\ [][NextVdm]_vars

(***************************************************************************)
(* Properties of the VDM keyboard (SpecVdm).                               *)
(***************************************************************************)
\* the key presses of the queue, in their order
KeysOf(q) == SelectSeq(q, IsKey)

\* a step of the thread that runs event_handler
HandlerStep == last_op' \notin {"key", "event", "kbd_data_in"}

\* the handshake of event_handler: a character is stored only when the
\* status is 1, the data is written before the status is set to 0, and
\* while the status is 0 the thread leaves the data alone and the key
\* presses in the queue; the CPU gets the characters in the order typed,
\* none left out
Handshake ==
    /\ [][proctec_kbd_data' # proctec_kbd_data =>
             proctec_kbd_status = 1]_vars
    /\ [][(proctec_kbd_status = 1 /\ proctec_kbd_status' = 0) =>
             /\ at \in {"event_handler_1", "sdl_event_handler_1"}
             /\ proctec_kbd_data' = proctec_kbd_data]_vars
    /\ [][(proctec_kbd_status = 0 /\ HandlerStep) =>
             /\ proctec_kbd_data' = proctec_kbd_data
             /\ KeysOf(ev_queue') = KeysOf(ev_queue)]_vars
    /\ [][last_op' = "kbd_data_in" => retval' = retval + 1]_vars

\* C32: the keyboard handshake never overwrites or reorders a key:
\* event_handler stores a character only when proctec_kbd_status is 1,
\* writes the data before it sets the status to 0, and while the status
\* is 0 leaves proctec_kbd_data unchanged and the pending key event
\* queued until the CPU has taken the character.
C32_Original == Handshake

\* the same in the build for X11
C32_X11 ==
    /\ [][machine = "vdm_x11" =>
             (proctec_kbd_data' # proctec_kbd_data =>
                 proctec_kbd_status = 1)]_vars
    /\ [][(machine = "vdm_x11"
           /\ proctec_kbd_status = 1 /\ proctec_kbd_status' = 0) =>
             /\ at = "event_handler_1"
             /\ proctec_kbd_data' = proctec_kbd_data]_vars
    /\ [][(machine = "vdm_x11" /\ proctec_kbd_status = 0 /\ HandlerStep) =>
             /\ proctec_kbd_data' = proctec_kbd_data
             /\ ev_queue' = ev_queue]_vars
    /\ [][(machine = "vdm_x11" /\ last_op' = "kbd_data_in") =>
             retval' = retval + 1]_vars

\* in the build for SDL the stores follow the handshake, and a key press
\* handed to the handler while the status is 0 is gone
C32_Sdl ==
    /\ [][machine = "vdm_sdl" =>
             (proctec_kbd_data' # proctec_kbd_data =>
                 proctec_kbd_status = 1)]_vars
    /\ [][(machine = "vdm_sdl"
           /\ proctec_kbd_status = 1 /\ proctec_kbd_status' = 0) =>
             /\ at = "sdl_event_handler_1"
             /\ proctec_kbd_data' = proctec_kbd_data]_vars
    /\ [][(machine = "vdm_sdl" /\ proctec_kbd_status = 0 /\ HandlerStep) =>
             proctec_kbd_data' = proctec_kbd_data]_vars
    /\ [][(machine = "vdm_sdl" /\ last_op' = "kbd_data_in") =>
             retval' > retval]_vars

\* X11: the third key has reached the CPU after the first two
C32_AllKeys ==
    /\ machine = "vdm_x11" /\ last_op = "kbd_data_in" /\ retval = 3
    /\ ev_queue = <<>>

\* SDL: the CPU has got the first key and finds the third one; the second
\* was typed while the first waited
C32_KeyLost ==
    /\ machine = "vdm_sdl" /\ retval = 1
    /\ proctec_kbd_status = 0 /\ proctec_kbd_data = 3

(***************************************************************************)
(* z80asm: the program counters and the conditional assembly.  A source    *)
(* line is its opcode and the values its operand evaluates to; eval, the   *)
(* symbol table and asmerr are not part of the sources at hand.  asmerr    *)
(* is taken to record the error of the line in errnum.                     *)
(***************************************************************************)
E_MISOPE == 3
E_MISIFF == 10
E_IFNEST == 11
E_PHSNEST == 14
E_ORGPHS == 15
E_MISPHS == 16

asmerr(e) == [errnum |-> e]

\* op_org(i): i is eval(operand)
op_org(i) ==
    IF asm.phs_flag # 0 THEN asmerr(E_ORGPHS)
    ELSE [rpc |-> i % 65536, pc |-> i % 65536]

op_phase(i) ==
    IF asm.phs_flag # 0 THEN asmerr(E_PHSNEST)
    ELSE [phs_flag |-> 1, pc |-> i % 65536]

\* op_dephase that leaves pc where the block has taken it
op_dephase_keep ==
    IF asm.phs_flag = 0 THEN asmerr(E_MISPHS)
    ELSE [phs_flag |-> 0]

op_dephase ==
    IF asm.phs_flag = 0 THEN asmerr(E_MISPHS)
    ELSE [phs_flag |-> 0, pc |-> asm.rpc]

\* op_ds: operand holds the values of count and, after a comma, of the
\* fill value; an empty operand is a missing one
op_ds(operand) ==
    IF operand = <<>> THEN asmerr(E_MISOPE)
    ELSE [pc |-> (asm.pc + operand[1]) % 65536,
          rpc |-> (asm.rpc + operand[1]) % 65536]

\* the IF pseudo-ops: push gencode, and clear it when it is on and the
\* condition is false
cond_if(false) ==
    IF asm.iflevel >= IFNEST THEN asmerr(E_IFNEST)
    ELSE [condnest |-> [asm.condnest EXCEPT ![asm.iflevel] = asm.gencode],
          iflevel |-> asm.iflevel + 1,
          gencode |-> IF asm.gencode # 0 /\ false THEN 0 ELSE asm.gencode]

\* IFEQ and IFNEQ: the operand is missing when it has no comma
cond_ifeq(operand, false) ==
    IF asm.iflevel >= IFNEST THEN asmerr(E_IFNEST)
    ELSE IF Len(operand) < 2
    THEN [condnest |-> [asm.condnest EXCEPT ![asm.iflevel] = asm.gencode],
          iflevel |-> asm.iflevel + 1, errnum |-> E_MISOPE]
    ELSE cond_if(false)

\* op_cond whose ELSE toggles gencode whatever the enclosing level
op_cond_toggle(op_code, operand) ==
    CASE op_code = 1 -> cond_if(operand = <<>> \/ operand[1] = 0)
      [] op_code = 2 -> cond_if(operand # <<>> /\ operand[1] # 0)
      [] op_code = 3 ->
            cond_ifeq(operand, Len(operand) >= 2 /\ operand[1] # operand[2])
      [] op_code = 4 ->
            cond_ifeq(operand, Len(operand) >= 2 /\ operand[1] = operand[2])
      [] op_code = 5 -> cond_if(operand = <<>> \/ operand[1] = 0)
      [] op_code = 6 -> cond_if(operand # <<>> /\ operand[1] # 0)
      [] op_code = 98 ->
            IF asm.iflevel = 0 THEN asmerr(E_MISIFF)
            ELSE [gencode |-> IF asm.gencode = 0 THEN 1 ELSE 0]
      [] op_code = 99 ->
            IF asm.iflevel = 0 THEN asmerr(E_MISIFF)
            ELSE [gencode |-> asm.condnest[asm.iflevel - 1],
                  iflevel |-> asm.iflevel - 1]

\* operand: the values of the operand (the symbol of IFDEF and IFNDEF is 0
\* when it is not defined)
op_cond(op_code, operand) ==
    CASE op_code = 1 -> cond_if(operand = <<>> \/ operand[1] = 0)
      [] op_code = 2 -> cond_if(operand # <<>> /\ operand[1] # 0)
      [] op_code = 3 ->
            cond_ifeq(operand, Len(operand) >= 2 /\ operand[1] # operand[2])
      [] op_code = 4 ->
            cond_ifeq(operand, Len(operand) >= 2 /\ operand[1] = operand[2])
      [] op_code = 5 -> cond_if(operand = <<>> \/ operand[1] = 0)
      [] op_code = 6 -> cond_if(operand # <<>> /\ operand[1] # 0)
      [] op_code = 98 ->
            IF asm.iflevel = 0 THEN asmerr(E_MISIFF)
            ELSE IF asm.condnest[asm.iflevel - 1] = 1
                 THEN [gencode |-> IF asm.gencode = 0 THEN 1 ELSE 0]
                 ELSE NoUpd
      [] op_code = 99 ->
            IF asm.iflevel = 0 THEN asmerr(E_MISIFF)
            ELSE [gencode |-> asm.condnest[asm.iflevel - 1],
                  iflevel |-> asm.iflevel - 1]

\* the pseudo-ops of the opcode table that concern conditional assembly
\* (OP_COND) and their op_c1
CondOps ==
    ("IFDEF" :> 1) @@ ("IFNDEF" :> 2) @@ ("IFEQ" :> 3) @@ ("IFNEQ" :> 4)
    @@ ("IF" :> 5) @@ ("IFE" :> 6) @@ ("ELSE" :> 98) @@ ("ENDIF" :> 99)

\* the function of the opcode of the line, called with the operand; a
\* line that emits code yields its length, a pseudo-op 0
op_fun(l) ==
    CASE l.op = "ORG" -> op_org(l.operand[1])
      [] l.op = ".PHASE" -> op_phase(l.operand[1])
      [] l.op = ".DEPHASE" -> op_dephase
      [] l.op = "DS" -> op_ds(l.operand)
      [] l.op \in DOMAIN CondOps -> op_cond(CondOps[l.op], l.operand)
      [] OTHER -> NoUpd

op_count(l) == IF l.op = "code" THEN l.operand[1] ELSE 0

\* process_line: the function of the opcode is called when code is
\* generated or the opcode concerns conditional assembly, and the program
\* counters move on by the length of the code when code is generated
process_line(l) ==
    LET called == asm.gencode > 0 \/ l.op \in DOMAIN CondOps
        a == IF called THEN op_fun(l) @@ [errnum |-> 0] @@ asm
             ELSE [errnum |-> 0] @@ asm
        n == IF called THEN op_count(l) ELSE 0
    IN  IF a.gencode > 0
        THEN [asm |-> [a EXCEPT !.pc = (a.pc + n) % 65536,
                                !.rpc = (a.rpc + n) % 65536]]
        ELSE [asm |-> a]

\* do_pass up to the first line
do_pass(p) ==
    [asm |-> [asm EXCEPT !.pass = p, !.rpc = 0, !.pc = 0, !.gencode = p]]

(***************************************************************************)
(* SpecPhase: one pass of the assembler over lines with ORG, .PHASE,       *)
(* .DEPHASE, DS, code and a conditional block.  A pass starts with the     *)
(* globals as they are initialised: pass 2 is run only after a pass 1      *)
(* without errors, which ends outside of .PHASE and IF blocks.             *)
(***************************************************************************)
MaxAsmLines == 5    \* source lines per behaviour

Line(op, operand) == [op |-> op, operand |-> operand]

PhaseLines ==
    { Line("ORG", <<256>>), Line("ORG", <<65535>>),
      Line(".PHASE", <<32768>>), Line(".DEPHASE", <<>>),
      Line("DS", <<2>>), Line("DS", <<>>),
      Line("code", <<1>>), Line("code", <<3>>),
      Line("IF", <<0>>), Line("ENDIF", <<>>) }

AMain ==
    /\ at = "main"
    /\ \E p \in {1, 2} : Go(Res(do_pass(p), "process_file"))
    /\ UNCHANGED ncmds

\* process_file reads a line into the line buffer and processes it
AsmLine(lines, max) ==
    /\ at = "process_file"
    /\ ncmds < max
    /\ \E l \in lines :
          /\ Assign(process_line(l))
          /\ loc' = l
    /\ last_op' = "process_line"
    /\ ncmds' = ncmds + 1
    /\ UNCHANGED <<confVars, at, stack, retval, raised, closed, ex_calls,
                   stop_req, after_stop>>

PhaseLine == AsmLine(PhaseLines, MaxAsmLines)

NextPhase == AMain \/ PhaseLine

SpecPhase == InitBp /\ [][NextPhase]_vars

\* the line with opcode op is processed in this step while code is
\* generated
OpStep(op) ==
    /\ at = "process_file" /\ ncmds' = ncmds + 1
    /\ loc'.op = op /\ asm.gencode > 0

\* the line reports the error e and changes neither pc, rpc nor phs_flag
Refused(e) ==
    /\ asm'.errnum = e
    /\ asm'.pc = asm.pc /\ asm'.rpc = asm.rpc
    /\ asm'.phs_flag = asm.phs_flag

\* C33: pc equals rpc whenever phs_flag is 0, after any sequence of ORG,
\* .PHASE, .DEPHASE, DS and code lines; a nested .PHASE, an ORG inside a
\* .PHASE block and a .DEPHASE outside a block report E_PHSNEST, E_ORGPHS
\* and E_MISPHS and change neither pc, rpc nor phs_flag.
C33_Counters ==
    /\ [](asm.phs_flag = 0 => asm.pc = asm.rpc)
    /\ [][(OpStep(".PHASE") /\ asm.phs_flag # 0) => Refused(E_PHSNEST)]_vars
    /\ [][(OpStep("ORG") /\ asm.phs_flag # 0) => Refused(E_ORGPHS)]_vars
    /\ [][(OpStep(".DEPHASE") /\ asm.phs_flag = 0) => Refused(E_MISPHS)]_vars

\* after a block that took pc away from rpc, .DEPHASE has brought pc back
\* to rpc, which went on counting in the block
C33_Witness ==
    /\ at = "process_file" /\ ncmds = 4
    /\ loc = Line(".DEPHASE", <<>>)
    /\ asm.errnum = 0 /\ asm.phs_flag = 0
    /\ asm.pc = 259 /\ asm.rpc = 259

\* an ORG in a .PHASE block has been refused
C33_OrgRefused ==
    /\ at = "process_file" /\ ncmds > 0
    /\ loc = Line("ORG", <<256>>)
    /\ asm.errnum = E_ORGPHS /\ asm.phs_flag = 1
    /\ asm.pc = 32768 /\ asm.rpc = 0

(***************************************************************************)
(* SpecCond: one pass of the assembler over lines with IF, IFEQ, ELSE and  *)
(* ENDIF.  Beside the program's state the behaviour keeps, in loc, the     *)
(* value gencode had at each IF that is still open, innermost last.        *)
(***************************************************************************)
MaxCondLines == 22    \* source lines per behaviour

CondLines ==
    { Line("IF", <<1>>), Line("IF", <<0>>), Line("IFEQ", <<>>),
      Line("ELSE", <<>>), Line("ENDIF", <<>>) }

IfOps == DOMAIN CondOps \ {"ELSE", "ENDIF"}

CMain ==
    /\ at = "main"
    /\ \E p \in {1, 2} : Assign(do_pass(p))
    /\ at' = "process_file"
    /\ loc' = <<>>
    /\ last_op' = "do_pass"
    /\ UNCHANGED <<confVars, stack, retval, raised, closed, ex_calls,
                   stop_req, after_stop, ncmds>>

CondLine ==
    /\ at = "process_file"
    /\ ncmds < MaxCondLines
    /\ \E l \in CondLines :
          /\ Assign(process_line(l))
          /\ last_op' = l.op
    /\ loc' = IF asm'.iflevel > asm.iflevel THEN Append(loc, asm.gencode)
              ELSE IF asm'.iflevel < asm.iflevel
              THEN SubSeq(loc, 1, Len(loc) - 1)
              ELSE loc
    /\ ncmds' = ncmds + 1
    /\ UNCHANGED <<confVars, at, stack, retval, raised, closed, ex_calls,
                   stop_req, after_stop>>

NextCond == CMain \/ CondLine

SpecCond == InitBp /\ [][NextCond]_vars

\* a line with one of the opcodes ops is processed in this step
CondStep(ops) ==
    /\ at = "process_file" /\ ncmds' = ncmds + 1
    /\ last_op' \in ops

\* the line reports the error e and changes neither iflevel nor gencode
CondRefused(e) ==
    /\ asm'.errnum = e
    /\ asm'.iflevel = asm.iflevel /\ asm'.gencode = asm.gencode

\* C34: 0 <= iflevel <= IFNEST; an IF at depth IFNEST reports E_IFNEST and
\* an ELSE or ENDIF at depth 0 reports E_MISIFF, both without changing
\* iflevel or gencode; if gencode was 0 at an open IF it is 0, whatever
\* nested IFs and ELSEs have occurred; ENDIF restores gencode to its value
\* at the matching IF.
C34_Nesting ==
    /\ [](asm.iflevel \in 0 .. IFNEST)
    /\ [](at = "process_file" =>
             /\ Len(loc) = asm.iflevel
             /\ (\E i \in 1 .. Len(loc) : loc[i] = 0) => asm.gencode = 0)
    /\ [][(CondStep(IfOps) /\ asm.iflevel = IFNEST)
             => CondRefused(E_IFNEST)]_vars
    /\ [][(CondStep({"ELSE", "ENDIF"}) /\ asm.iflevel = 0)
             => CondRefused(E_MISIFF)]_vars
    /\ [][(CondStep({"ENDIF"}) /\ asm.iflevel > 0)
             => /\ asm'.gencode = loc[Len(loc)]
                /\ asm'.iflevel = asm.iflevel - 1]_vars

\* an IF at the full depth has been refused
C34_Witness ==
    /\ at = "process_file" /\ last_op = "IF"
    /\ asm.iflevel = IFNEST /\ asm.errnum = E_IFNEST

\* the ENDIF of a false IF that held a nested IF has switched code
\* generation on again
C34_Restored ==
    /\ at = "process_file" /\ last_op = "ENDIF"
    /\ asm.iflevel = 0 /\ asm.gencode = asm.pass
    /\ asm.condnest[0] = asm.pass /\ asm.condnest[1] = 0
    /\ ncmds = 5

(***************************************************************************)
(* picosim: the memory of the Raspberry Pico machine and its load_file.    *)
(* code[] is kept by records of 128 bytes, the unit load_file reads:       *)
(* pico.code maps the number of a record to n, the number of bytes at its  *)
(* start that come from the file, off, the offset in the file of the first *)
(* of them, and old, the byte the rest of the record holds.  code[] is     *)
(* static, so a record never written holds 0.  A record number of          *)
(* MEMSIZE / 128 or more stands for the bytes that follow the array in the *)
(* address space of the program.                                           *)
(***************************************************************************)
MEMSIZE == 65536

RomPage == 65280 .. 65535      \* 0xff00 .. 0xffff

\* the byte at offset k of a file; no byte of it is the ROM fill 0xff
FileByte(k) == k % 251

Untouched == [off |-> 0, n |-> 0, old |-> 0]

Rec(b) == IF b \in DOMAIN pico.code THEN pico.code[b] ELSE Untouched

\* code[a]
code_at(a) ==
    LET d == Rec(a \div 128)
    IN  IF (a % 128) < d.n THEN FileByte(d.off + (a % 128)) ELSE d.old

init_memory ==
    [pico |-> [pico EXCEPT
        !.code = [b \in {a \div 128 : a \in RomPage} |->
                     [off |-> 0, n |-> 0, old |-> 255]] @@ @]]

\* FatFs f_read(&sd_file, &code[i], btr, &br) for i at the start of a
\* record and btr of at most a record: copies up to btr bytes from the
\* read position of the file to code[i] onward and moves the position; ok
\* is FALSE when the card fails, and nothing is read then
f_read(i, btr, ok) ==
    LET left == pico.sd_file.len - pico.sd_file.fptr
        br == IF ~ok THEN 0 ELSE IF left < btr THEN left ELSE btr
        b == i \div 128
    IN  [br |-> br,
         res |-> IF ok THEN "FR_OK" ELSE "FR_DISK_ERR",
         pico |-> [code |-> IF br = 0 THEN pico.code
                            ELSE (b :> [off |-> pico.sd_file.fptr, n |-> br,
                                        old |-> Rec(b).old]) @@ pico.code,
                   sd_file |-> [pico.sd_file EXCEPT !.fptr = @ + br]]]

\* load_file at pos: len is the length of the file name.BIN, -1 when there
\* is none; i is the local of that name; the result names the updates, the
\* new i and the position that follows
load_file(pos, len, i, ok) ==
    CASE pos = "load_file" ->
            IF len < 0
            THEN [upd |-> NoUpd, i |-> 0, to |-> "complain"]
            ELSE [upd |-> [pico |-> [pico EXCEPT
                                       !.sd_file = [len |-> len, fptr |-> 0]]],
                  i |-> 0, to |-> "load_file_read"]
      [] pos = "load_file_read" ->
            LET r == f_read(i, 128, ok)
            IN  IF r.res = "FR_OK" /\ r.br >= 128
                THEN [upd |-> [pico |-> r.pico], i |-> i + 128,
                      to |-> "load_file_read"]
                ELSE [upd |-> [pico |-> r.pico], i |-> i, to |-> "loaded"]

(***************************************************************************)
(* SpecPico: init_memory, then one load_file of a file of any of the       *)
(* lengths FileLens.                                                       *)
(***************************************************************************)
MaxFileLen == 65537    \* length of the longest file

FileLens == {-1, 0, 100, 128, 65280, 65281, 65536, MaxFileLen}

PicoMain ==
    /\ at = "main"
    /\ Assign(init_memory)
    /\ at' = "load_file" /\ loc' = 0
    /\ last_op' = "init_memory"
    /\ UNCHANGED <<confVars, stack, retval, raised, closed, ex_calls,
                   stop_req, after_stop, ncmds>>

PicoLoadFile ==
    /\ at \in {"load_file", "load_file_read"}
    /\ \E len \in FileLens, ok \in BOOLEAN :
          LET r == load_file(at, len, loc, ok)
          IN  /\ at = "load_file" => ok
              /\ at = "load_file_read" => len = pico.sd_file.len
              /\ Assign(r.upd)
              /\ at' = r.to /\ loc' = r.i
    /\ last_op' = at
    /\ ncmds' = IF at' = "loaded" THEN 1 ELSE 0
    /\ UNCHANGED <<confVars, stack, retval, raised, closed, ex_calls,
                   stop_req, after_stop>>

NextPico == PicoMain \/ PicoLoadFile

SpecPico == InitBp /\ [][NextPico]_vars

\* C35: load_file writes only inside code[0 .. 65535] for files of any
\* length, and never changes the top page 0xff00 .. 0xffff that
\* init_memory has filled with 0xff.
C35_Original ==
    /\ \A b \in DOMAIN pico.code : b * 128 < MEMSIZE
    /\ at # "main" => \A a \in RomPage : code_at(a) = 255

\* a file of at most 0xff00 bytes leaves the top page alone, and one of at
\* most MEMSIZE bytes stays inside the array
C35_ShortFiles ==
    /\ (at \notin {"main", "load_file"} /\ pico.sd_file.len <= 65280)
          => \A a \in RomPage : code_at(a) = 255
    /\ pico.sd_file.len <= MEMSIZE
          => \A b \in DOMAIN pico.code : b * 128 < MEMSIZE

\* the first byte of the top page has been replaced by a byte of the file
C35_RomOverwritten ==
    /\ at = "loaded" /\ pico.sd_file.len = 65281
    /\ code_at(65280) = FileByte(65280) /\ code_at(65281) = 255

\* a byte has been stored behind the array
C35_BeyondArray ==
    /\ at = "loaded" /\ MEMSIZE \div 128 \in DOMAIN pico.code

(***************************************************************************)
(* simglb.c: the tables parity, sz_flags and szyxp_flags.  As for          *)
(* szp_flags and szyx_flags, entry x of a table is element x + 1 of the    *)
(* sequence.                                                               *)
(***************************************************************************)
parity ==
    <<
         0, 1, 1, 0, 1, 0, 0, 1,
         1, 0, 0, 1, 0, 1, 1, 0,
         1, 0, 0, 1, 0, 1, 1, 0,
         0, 1, 1, 0, 1, 0, 0, 1,
         1, 0, 0, 1, 0, 1, 1, 0,
         0, 1, 1, 0, 1, 0, 0, 1,
         0, 1, 1, 0, 1, 0, 0, 1,
         1, 0, 0, 1, 0, 1, 1, 0,
         1, 0, 0, 1, 0, 1, 1, 0,
         0, 1, 1, 0, 1, 0, 0, 1,
         0, 1, 1, 0, 1, 0, 0, 1,
         1, 0, 0, 1, 0, 1, 1, 0,
         0, 1, 1, 0, 1, 0, 0, 1,
         1, 0, 0, 1, 0, 1, 1, 0,
         1, 0, 0, 1, 0, 1, 1, 0,
         0, 1, 1, 0, 1, 0, 0, 1,
         1, 0, 0, 1, 0, 1, 1, 0,
         0, 1, 1, 0, 1, 0, 0, 1,
         0, 1, 1, 0, 1, 0, 0, 1,
         1, 0, 0, 1, 0, 1, 1, 0,
         0, 1, 1, 0, 1, 0, 0, 1,
         1, 0, 0, 1, 0, 1, 1, 0,
         1, 0, 0, 1, 0, 1, 1, 0,
         0, 1, 1, 0, 1, 0, 0, 1,
         0, 1, 1, 0, 1, 0, 0, 1,
         1, 0, 0, 1, 0, 1, 1, 0,
         1, 0, 0, 1, 0, 1, 1, 0,
         0, 1, 1, 0, 1, 0, 0, 1,
         1, 0, 0, 1, 0, 1, 1, 0,
         0, 1, 1, 0, 1, 0, 0, 1,
         0, 1, 1, 0, 1, 0, 0, 1,
         1, 0, 0, 1, 0, 1, 1, 0
    >>

sz_flags ==
    LET o == 0
        S == S_FLAG
        Z == Z_FLAG
    IN  <<
         Z, o, o, o, o, o, o, o,
         o, o, o, o, o, o, o, o,
         o, o, o, o, o, o, o, o,
         o, o, o, o, o, o, o, o,
         o, o, o, o, o, o, o, o,
         o, o, o, o, o, o, o, o,
         o, o, o, o, o, o, o, o,
         o, o, o, o, o, o, o, o,
         o, o, o, o, o, o, o, o,
         o, o, o, o, o, o, o, o,
         o, o, o, o, o, o, o, o,
         o, o, o, o, o, o, o, o,
         o, o, o, o, o, o, o, o,
         o, o, o, o, o, o, o, o,
         o, o, o, o, o, o, o, o,
         o, o, o, o, o, o, o, o,
         S, S, S, S, S, S, S, S,
         S, S, S, S, S, S, S, S,
         S, S, S, S, S, S, S, S,
         S, S, S, S, S, S, S, S,
         S, S, S, S, S, S, S, S,
         S, S, S, S, S, S, S, S,
         S, S, S, S, S, S, S, S,
         S, S, S, S, S, S, S, S,
         S, S, S, S, S, S, S, S,
         S, S, S, S, S, S, S, S,
         S, S, S, S, S, S, S, S,
         S, S, S, S, S, S, S, S,
         S, S, S, S, S, S, S, S,
         S, S, S, S, S, S, S, S,
         S, S, S, S, S, S, S, S,
         S, S, S, S, S, S, S, S
        >>

\* szyxp_flags without the parity flag
szyxp_flags_noparity == szyx_flags

szyxp_flags ==
    LET o == 0
        S == S_FLAG
        Z == Z_FLAG
        Y == Y_FLAG
        X == X_FLAG
        P == P_FLAG
    IN  <<
         Z + P        , o            , o            , P            , o            , P            , P            , o,
         X            , X + P        , X + P        , X            , X + P        , X            , X            , X + P,
         o            , P            , P            , o            , P            , o            , o            , P,
         X + P        , X            , X            , X + P        , X            , X + P        , X + P        , X,
         Y            , Y + P        , Y + P        , Y            , Y + P        , Y            , Y            , Y + P,
         Y + X + P    , Y + X        , Y + X        , Y + X + P    , Y + X        , Y + X + P    , Y + X + P    , Y + X,
         Y + P        , Y            , Y            , Y + P        , Y            , Y + P        , Y + P        , Y,
         Y + X        , Y + X + P    , Y + X + P    , Y + X        , Y + X + P    , Y + X        , Y + X        , Y + X + P,
         o            , P            , P            , o            , P            , o            , o            , P,
         X + P        , X            , X            , X + P        , X            , X + P        , X + P        , X,
         P            , o            , o            , P            , o            , P            , P            , o,
         X            , X + P        , X + P        , X            , X + P        , X            , X            , X + P,
         Y + P        , Y            , Y            , Y + P        , Y            , Y + P        , Y + P        , Y,
         Y + X        , Y + X + P    , Y + X + P    , Y + X        , Y + X + P    , Y + X        , Y + X        , Y + X + P,
         Y            , Y + P        , Y + P        , Y            , Y + P        , Y            , Y            , Y + P,
         Y + X + P    , Y + X        , Y + X        , Y + X + P    , Y + X        , Y + X + P    , Y + X + P    , Y + X,
         S            , S + P        , S + P        , S            , S + P        , S            , S            , S + P,
         S + X + P    , S + X        , S + X        , S + X + P    , S + X        , S + X + P    , S + X + P    , S + X,
         S + P        , S            , S            , S + P        , S            , S + P        , S + P        , S,
         S + X        , S + X + P    , S + X + P    , S + X        , S + X + P    , S + X        , S + X        , S + X + P,
         S + Y + P    , S + Y        , S + Y        , S + Y + P    , S + Y        , S + Y + P    , S + Y + P    , S + Y,
         S + Y + X    , S + Y + X + P, S + Y + X + P, S + Y + X    , S + Y + X + P, S + Y + X    , S + Y + X    , S + Y + X + P,
         S + Y        , S + Y + P    , S + Y + P    , S + Y        , S + Y + P    , S + Y        , S + Y        , S + Y + P,
         S + Y + X + P, S + Y + X    , S + Y + X    , S + Y + X + P, S + Y + X    , S + Y + X + P, S + Y + X + P, S + Y + X,
         S + P        , S            , S            , S + P        , S            , S + P        , S + P        , S,
         S + X        , S + X + P    , S + X + P    , S + X        , S + X + P    , S + X        , S + X        , S + X + P,
         S            , S + P        , S + P        , S            , S + P        , S            , S            , S + P,
         S + X + P    , S + X        , S + X        , S + X + P    , S + X        , S + X + P    , S + X + P    , S + X,
         S + Y        , S + Y + P    , S + Y + P    , S + Y        , S + Y + P    , S + Y        , S + Y        , S + Y + P,
         S + Y + X + P, S + Y + X    , S + Y + X    , S + Y + X + P, S + Y + X    , S + Y + X + P, S + Y + X + P, S + Y + X,
         S + Y + P    , S + Y        , S + Y        , S + Y + P    , S + Y        , S + Y + P    , S + Y + P    , S + Y,
         S + Y + X    , S + Y + X + P, S + Y + X + P, S + Y + X    , S + Y + X + P, S + Y + X    , S + Y + X    , S + Y + X + P
        >>

(***************************************************************************)
(* SpecTables: the five tables looked up with the byte in A; loc keeps     *)
(* what each table holds for it.                                           *)
(***************************************************************************)
TabLookup ==
    /\ at = "alu"
    /\ loc' = [parity |-> parity[A + 1], sz |-> sz_flags[A + 1],
               szp |-> szp_flags[A + 1], szyx |-> szyx_flags[A + 1],
               szyxp |-> szyxp_flags[A + 1]]
    /\ at' = "alu_3"
    /\ last_op' = "alu"
    /\ UNCHANGED <<confVars, dataVars, stack, retval, raised, closed,
                   ex_calls, stop_req, after_stop, ncmds>>

NextTables == SzMain \/ TabLookup

SpecTables == InitSzp /\ [][NextTables]_vars

\* C36: for every index x in 0 .. 255, parity[x] is popcount(x) mod 2,
\* szp_flags[x] is sz_flags[x] plus P exactly when parity[x] is 0,
\* szyxp_flags[x] is szyx_flags[x] | szp_flags[x], and no flag table has
\* a bit other than S, Z, Y, X and P (H, N and C are never set).
C36_Tables ==
    /\ Len(parity) = 256 /\ Len(sz_flags) = 256 /\ Len(szyxp_flags) = 256
    /\ (at = "alu_3") =>
          /\ loc.parity = popcount(A) % 2
          /\ loc.szp = loc.sz + (IF loc.parity = 0 THEN P_FLAG ELSE 0)
          /\ loc.szyxp = BitOr(loc.szyx, loc.szp)
          /\ \A t \in {loc.sz, loc.szp, loc.szyx, loc.szyxp} :
                /\ t \in 0 .. 255
                /\ BitAnd(t, H_FLAG + N_FLAG + C_FLAG) = 0
          /\ BitAnd(loc.sz, Y_FLAG + X_FLAG + P_FLAG) = 0
          /\ BitAnd(loc.szp, Y_FLAG + X_FLAG) = 0
          /\ BitAnd(loc.szyx, P_FLAG) = 0

\* the tables have been looked up for a byte with sign, Y, X and even
\* parity, and for one with odd parity
C36_Witness ==
    /\ at = "alu_3" /\ A = 255
    /\ loc.parity = 0 /\ loc.sz = S_FLAG
    /\ loc.szyxp = S_FLAG + Y_FLAG + X_FLAG + P_FLAG

C36_OddParity ==
    /\ at = "alu_3" /\ A = 1
    /\ loc.parity = 1 /\ loc.szp = 0 /\ loc.szyxp = 0

\* C37: while a front panel reset is pending (reset # 0) the machine loop
\* enters neither run_cpu nor step_cpu.
C37_Original ==
    [][(reset # 0 /\ at \in MonPos) => at' \notin {"run_cpu", "step_cpu"}]_vars

\* the machine loop guards run_cpu: it is not entered while reset is pending
C37_RunGuarded ==
    [][(reset # 0 /\ at \in MonPos) => at' # "run_cpu"]_vars

\* the machine loop has entered step_cpu with the RESET switch held
C37_StepInReset ==
    /\ at = "step_cpu" /\ last_op = "mon_switch"
    /\ reset # 0 /\ cpu_switch = 2

(***************************************************************************)
(* SpecOff: altairsim with front panel, the panel thread with all its      *)
(* switches and the close of the window; the CPU thread is followed in the *)
(* loop of mon up to the call of run_cpu or step_cpu.  Every click is      *)
(* recorded, also when the callback changes nothing.                       *)
(***************************************************************************)
MaxOffOps == 4      \* clicks and window events per behaviour

OffPanel(upd, name) ==
    /\ at \notin {"main", "exit"}
    /\ ~ closed
    /\ ncmds < MaxOffOps
    /\ Assign(upd)
    /\ last_op' = name
    /\ ncmds' = ncmds + 1
    /\ UNCHANGED <<confVars, at, stack, loc, retval, raised, ex_calls,
                   stop_req, after_stop>>

UpDown == {"FP_SW_UP", "FP_SW_DOWN"}

ORunClicked ==
    \E state \in UpDown :
        OffPanel(run_clicked(state), "run_clicked") /\ UNCHANGED closed

OStepClicked ==
    \E state \in UpDown :
        OffPanel(step_clicked(state), "step_clicked") /\ UNCHANGED closed

OResetClicked ==
    \E state \in SwStates :
        OffPanel(reset_clicked(state, 0), "reset_clicked")
        /\ UNCHANGED closed

OExamineClicked ==
    \E state \in UpDown :
        OffPanel(examine_clicked(state, 255), "examine_clicked")
        /\ UNCHANGED closed

ODepositClicked ==
    \E state \in UpDown :
        OffPanel(deposit_clicked(state, 255), "deposit_clicked")
        /\ UNCHANGED closed

OProtectClicked ==
    \E state \in UpDown :
        OffPanel(protect_clicked(state), "protect_clicked")
        /\ UNCHANGED closed

OIntClicked ==
    \E state \in UpDown :
        OffPanel(int_clicked(state), "int_clicked") /\ UNCHANGED closed

OPowerClicked ==
    \E state \in UpDown :
        OffPanel(power_clicked(state), "power_clicked") /\ UNCHANGED closed

OQuitCallback ==
    OffPanel(quit_callback, "quit_callback") /\ closed' = TRUE

NextOff ==
    \/ PMain \/ Mon
    \/ ORunClicked \/ OStepClicked \/ OResetClicked
    \/ OExamineClicked \/ ODepositClicked \/ OProtectClicked \/ OIntClicked
    \/ OPowerClicked \/ OQuitCallback

SpecOff == InitWait /\ [][NextOff]_vars

\* one of the seven switches RUN, STEP, RESET, EXAMINE, DEPOSIT, PROTECT
\* and INT is clicked in this step
SwitchStep ==
    /\ ncmds' = ncmds + 1
    /\ last_op' \in {"run_clicked", "step_clicked", "reset_clicked",
                     "examine_clicked", "deposit_clicked",
                     "protect_clicked", "int_clicked"}

\* no CPU register, memory byte, page attribute or scheduler variable
\* changes in this step
OffFrame ==
    UNCHANGED <<A, B, C, D, E, H, L, F, IX, IY, WZ, A_, B_, C_, D_, E_, H_,
                L_, F_, I, R, R_, PC, SP, IFF, memory, p_tab,
                cpu_state, cpu_switch, reset, int_int>>

\* C38: while the machine is powered off the seven switch callbacks
\* change no CPU register, no memory byte, no page attribute and none of
\* cpu_state, cpu_switch, reset and int_int, after any sequence of power,
\* window-close and switch events; the power counter is always 0 or 1.
C38_Original ==
    /\ [](power \in {0, 1})
    /\ [][(power = 0 /\ SwitchStep) => OffFrame]_vars

\* the callbacks are without effect when power is 0
C38_OffFrame == [][(power = 0 /\ SwitchStep) => OffFrame]_vars

\* the close of the window leaves power at 0 or below it
C38_PowerRange == power \in {-1, 0, 1}

\* the window has been closed with the machine powered off
C38_Negative == last_op = "quit_callback" /\ power = -1

\* a switch has been clicked after the machine was powered on, used and
\* powered off again
C38_ClickedOff ==
    /\ power = 0 /\ cpu_error = POWEROFF /\ ncmds = 4
    /\ last_op = "deposit_clicked" /\ PC = 255

(***************************************************************************)
(* simcore.c: start_bus_request and end_bus_request statement by           *)
(* statement, as a thread other than the CPU thread executes them.         *)
(***************************************************************************)
start_bus_request_steps(pos, mode, bus_master) ==
    CASE pos = "start_bus_request" ->
            [upd |-> [bus_mode |-> mode], to |-> "start_bus_request_1"]
      [] pos = "start_bus_request_1" ->
            [upd |-> [dma_bus_master |-> bus_master],
             to |-> "start_bus_request_2"]
      [] pos = "start_bus_request_2" ->
            [upd |-> [bus_request |-> 1], to |-> "idle"]

end_bus_request_steps(pos) ==
    CASE pos = "end_bus_request" ->
            [upd |-> [bus_mode |-> "BUS_DMA_NONE"],
             to |-> "end_bus_request_1"]
      [] pos = "end_bus_request_1" ->
            [upd |-> [dma_bus_master |-> "NULL"], to |-> "end_bus_request_2"]
      [] pos = "end_bus_request_2" ->
            [upd |-> [bus_request |-> 0], to |-> "idle"]

StartPos == {"start_bus_request", "start_bus_request_1",
             "start_bus_request_2"}

(***************************************************************************)
(* SpecBus: altairsim with front panel single-stepping a program, and the  *)
(* thread of a DMA device that requests the bus and ends its request at    *)
(* any time.  The bus master callback may also end the request on the CPU  *)
(* thread.                                                                 *)
(***************************************************************************)
\* the device calls start_bus_request when the bus is free and
\* end_bus_request when it is requested
DevCall ==
    /\ at \notin {"main", "exit"}
    /\ dev.at = "idle"
    /\ IF bus_request = 0
       THEN Assign([dev |-> [at |-> "start_bus_request",
                             arg |-> <<"BUS_DMA_BYTE", "dma_read">>]])
       ELSE Assign([dev |-> [at |-> "end_bus_request", arg |-> <<>>]])
    /\ UNCHANGED <<confVars, ctlVars>>

DevStep ==
    /\ dev.at # "idle"
    /\ LET r == IF dev.at \in StartPos
                THEN start_bus_request_steps(dev.at, dev.arg[1], dev.arg[2])
                ELSE end_bus_request_steps(dev.at)
       IN  Assign(Then(r.upd, [dev |-> [dev EXCEPT !.at = r.to]]))
    /\ UNCHANGED <<confVars, ctlVars>>

NextBus ==
    \/ XMain \/ Mon \/ StepCpu \/ XCpuZ80 \/ XCpu8080
    \/ XPowerOn \/ XStepClicked
    \/ DevCall \/ DevStep

SpecBus == InitExec /\ [][NextBus]_vars

\* C39: at every point at which the CPU thread can observe the bus state,
\* bus_request = 1 implies that a bus master callback is registered, also
\* while start_bus_request or end_bus_request is executing on a device
\* thread.
C39_Original == bus_request = 1 => dma_bus_master # "NULL"

\* the bus is requested without a bus master and no call of the device is
\* under way: the bus master called for an earlier request has ended the
\* request between the second and the third statement of
\* start_bus_request
C39_Stuck ==
    /\ dev.at = "idle"
    /\ bus_request = 1 /\ dma_bus_master = "NULL"

\* the CPU thread is in the bus acknowledge loop with the bus requested
\* and no bus master registered
C39_Torn ==
    /\ at \in XAckPos
    /\ bus_request = 1 /\ dma_bus_master = "NULL"


====
